---- MODULE Spec2Model ----
(***************************************************************************)
(* Model of vibesweep's Safe-Fix transaction engine:                       *)
(*   SafeFixer.runSafeFixes   (src/src/safety/safe-fixer.ts)               *)
(*   BackupSystem             (src/src/safety/backup-system.ts)            *)
(*   GitSafety                (src/src/__tests__/format.test.ts, l.36-153) *)
(*   ChangePreview            (src/unnamed/part_005)                       *)
(*   ValidationSuite          (src/src/safety/safe-fixer.ts, l.360-544)    *)
(*   ConsoleLogFixer          (src/src/fixers/console-log-fixer.ts)        *)
(*                                                                         *)
(* A path is a sequence of components (<<"a","util.js">> is /a/util.js).   *)
(* A file's content is the sequence of its lines (content.split('\n')).    *)
(* A line is one of a few representative source lines, see Lines.          *)
(***************************************************************************)
EXTENDS Integers, Sequences, FiniteSets, TLC

VARIABLES
    cfg,              \* SafeFixConfig of the run (this.config)
    env,              \* the project: repository state, package.json
    targetFiles,      \* argument of runSafeFixes
    disk,             \* target path -> content (sequence of lines)
    disk0,            \* content of every target when runSafeFixes was called
    git,              \* branches created, commits made by the engine
    pc,               \* position of runSafeFixes
    foundFixes,       \* result of findConsoleLogStatements, when run on its own
    changeSet,        \* result of collectFixes
    finalChangeSet,   \* the ChangeSet that BACKUP/APPLY use
    decision,         \* result of showInteractive
    backup,           \* the BackupHandle of the run, or NoHandle
    backupFs,         \* backup path -> content (the backup directory)
    backups,          \* BackupSystem.backups: id -> registered handle
    applyQueue,       \* files of applyFixes' fileGroups not yet applied
    validationResult, \* result of the post-apply ValidationSuite.run
    result,           \* the SafeFixResult record
    exitCode,         \* exit codes the fix command has ended the process with
    hist              \* what has happened so far (observation only)

vars == <<cfg, env, targetFiles, disk, disk0, git, pc, foundFixes,
          changeSet,
          finalChangeSet, decision, backup, backupFs, backups, applyQueue,
          validationResult, result, exitCode, hist>>

---------------------------------------------------------------------------
(* Bounds *)

\* number of target files handed to runSafeFixes
NumFiles == 2

\* largest number of files whose backup copy or restore can fail in one call
MaxFaults == 1

---------------------------------------------------------------------------
(* Sequences *)

Range(s) == {s[i] : i \in 1..Len(s)}

\* Array.prototype.filter
RECURSIVE SelectSeqBy(_, _)
SelectSeqBy(s, keep) ==
    IF s = <<>> THEN <<>>
    ELSE (IF Head(s) \in keep THEN <<Head(s)>> ELSE <<>>)
         \o SelectSeqBy(Tail(s), keep)

\* Array.prototype.slice(0, n)
Slice0(s, n) == IF n <= 0 THEN <<>> ELSE SubSeq(s, 1, IF n < Len(s) THEN n ELSE Len(s))

\* [...new Set(s)] and the key order of a Map filled in the order of s:
\* first occurrences, in order
RECURSIVE Distinct(_)
Distinct(s) ==
    IF s = <<>> THEN <<>>
    ELSE LET r == Distinct(SubSeq(s, 1, Len(s) - 1))
             x == s[Len(s)]
         IN IF x \in Range(r) THEN r ELSE Append(r, x)

\* stable insertion of change c into a list sorted by descending line
RECURSIVE InsertDesc(_, _)
InsertDesc(sorted, c) ==
    IF sorted = <<>> THEN <<c>>
    ELSE IF Head(sorted).line >= c.line
         THEN <<Head(sorted)>> \o InsertDesc(Tail(sorted), c)
         ELSE <<c>> \o sorted

\* [...xs].sort((a, b) => b.line - a.line): stable, descending by line
RECURSIVE SortDescByLine(_)
SortDescByLine(xs) ==
    IF xs = <<>> THEN <<>>
    ELSE InsertDesc(SortDescByLine(SubSeq(xs, 1, Len(xs) - 1)), xs[Len(xs)])

---------------------------------------------------------------------------
(* Paths and target files *)

DirOf(i)  == IF i % 2 = 1 THEN "a" ELSE "b"
BaseOf(i) == IF i <= 2 THEN "util.js" ELSE IF i <= 4 THEN "main.ts" ELSE "view.jsx"

\* the i-th target: /a/util.js, /b/util.js, /a/main.ts, /b/main.ts, ...
PathOf(i) == <<DirOf(i), BaseOf(i)>>

Targets == {PathOf(i) : i \in 1..NumFiles}

\* path.basename
Basename(p) == p[Len(p)]

\* path.join(dir, name)
PathJoin(dir, name) == dir \o <<name>>

\* /\.[jt]sx?$/.test(file)
IsJsTs(p) ==
    Basename(p) \in {"util.js", "main.ts", "view.jsx", "lib.min.js", "util.test.js",
                     "util.spec.ts"}

---------------------------------------------------------------------------
(* Lines.  Each value stands for one source line:                          *)
(*   "code"        const x = 5;                                            *)
(*   "call"        doWork(x);                                              *)
(*   "log"         console.log('hello world');                             *)
(*   "debug"       console.debug(value);                                   *)
(*   "inline"      const x = 5; console.log('value:', x); const y = 10;    *)
(*   "inlineFixed" const x = 5;  const y = 10;                             *)
(*   "logKeep"     console.log('kept'); // @preserve                       *)
(*   "marker"      // @vibesweep-ignore                                    *)
(*   "mlOpen"      console.log(                                            *)
(*   "mlArg"         'long message',                                       *)
(*   "mlClose"     );                                                      *)
(*   "mlNested"      console.log('inner'),     an argument of "mlOpen"     *)
(*   "logCall"     console.log('start'); doWork(x);                        *)
(*   "inlineParen" const x = 5; console.log(fmt(x)); const y = 10;         *)
(*   "broken"      a line the parser rejects, holding console.log('x'      *)
(*   "seqLog"         (console.log('a'), doWork(x));                       *)
(*   "seqLogVar"      (console.log(x), doWork(x));                         *)
(*   "condLog"        ok ? console.log('yes') : doWork(x);                 *)
(*   "condLogVar"     ok ? console.log(x) : doWork(x);                     *)
(*   "condSeqLog"     ok ? (console.log('a'), 1) : 2;                      *)
(*   "condSeqLogVar"  ok ? (console.log(x), 1) : 2;                        *)
(*   ""            the empty line                                          *)

\* the lines whose console.log call is the direct child of a sequence
\* expression, and the ones whose call is inside a conditional expression
SequenceLines == {"seqLog", "seqLogVar", "condSeqLog", "condSeqLogVar"}

ConditionalLines == {"condLog", "condLogVar", "condSeqLog", "condSeqLogVar"}

Lines == {"code", "call", "log", "debug", "inline", "inlineFixed", "logKeep",
          "marker", "mlOpen", "mlArg", "mlClose", "mlNested", "logCall", "inlineParen",
          "broken", ""} \cup SequenceLines \cup ConditionalLines

\* the console.log/debug/info call expressions that start on a line, in
\* source order: callee method, column, and what calculateConfidence reads
CallsOn(line) ==
    CASE line = "log"     -> <<[method |-> "log", column |-> 0, allStrings |-> TRUE,
                                inSequence |-> FALSE, inConditional |-> FALSE]>>
      [] line = "debug"   -> <<[method |-> "debug", column |-> 0, allStrings |-> FALSE,
                                inSequence |-> FALSE, inConditional |-> FALSE]>>
      [] line \in {"inline", "inlineParen"} ->
                             <<[method |-> "log", column |-> 13, allStrings |-> FALSE,
                                inSequence |-> FALSE, inConditional |-> FALSE]>>
      [] line = "logKeep" -> <<[method |-> "log", column |-> 0, allStrings |-> TRUE,
                                inSequence |-> FALSE, inConditional |-> FALSE]>>
      [] line = "mlOpen"  -> <<[method |-> "log", column |-> 0, allStrings |-> TRUE,
                                inSequence |-> FALSE, inConditional |-> FALSE]>>
      [] line = "mlNested" -> <<[method |-> "log", column |-> 2, allStrings |-> TRUE,
                                 inSequence |-> FALSE, inConditional |-> FALSE]>>
      [] line = "logCall" -> <<[method |-> "log", column |-> 0, allStrings |-> TRUE,
                                inSequence |-> FALSE, inConditional |-> FALSE]>>
      [] line \in SequenceLines \cup ConditionalLines ->
                             <<[method |-> "log",
                                column |-> IF line \in {"seqLog", "seqLogVar"} THEN 1
                                           ELSE IF line \in {"condLog", "condLogVar"} THEN 5
                                           ELSE 6,
                                allStrings |-> line \in {"seqLog", "condLog", "condSeqLog"},
                                inSequence |-> line \in SequenceLines,
                                inConditional |-> line \in ConditionalLines]>>
      [] OTHER            -> <<>>

\* whether the arguments of the call opened on line n, which go up to the
\* next "mlClose", hold a call (a "mlNested" line)
RECURSIVE HasNestedArg(_, _)
HasNestedArg(content, i) ==
    IF i > Len(content) \/ content[i] = "mlClose" THEN FALSE
    ELSE content[i] = "mlNested" \/ HasNestedArg(content, i + 1)

\* the calls that start on line n of the content: the arguments of a
\* multi-line call are string literals unless one of them is a call
CallsAt(content, n) ==
    IF content[n] = "mlOpen" /\ HasNestedArg(content, n + 1)
    THEN <<[CallsOn("mlOpen")[1] EXCEPT !.allStrings = FALSE]>>
    ELSE CallsOn(content[n])

\* the safePatterns (log, debug, info, in that order) that match a line
RegexMethods(line) ==
    CASE line \in {"log", "inline", "logKeep", "mlOpen", "mlNested", "logCall",
                    "inlineParen", "broken"} \cup SequenceLines \cup ConditionalLines
                        -> <<"log">>
      [] line = "debug" -> <<"debug">>
      [] OTHER -> <<>>

\* line.match(pattern).index
RegexColumn(line) ==
    IF line \in {"inline", "inlineParen"} THEN 13
    ELSE IF line = "mlNested" THEN 2
    ELSE IF line \in {"seqLog", "seqLogVar"} THEN 1
    ELSE IF line \in {"condLog", "condLogVar"} THEN 5
    ELSE IF line \in {"condSeqLog", "condSeqLogVar"} THEN 6
    ELSE 0

\* line.trim().endsWith(');') || line.trim().endsWith(')')
EndsWithCloser(line) ==
    line \in {"call", "log", "debug", "mlClose", "logCall", "seqLog", "seqLogVar",
              "condLog", "condLogVar"}

\* line.includes(');')
IncludesCloser(line) ==
    line \in {"call", "log", "debug", "inline", "logKeep", "mlClose", "logCall",
              "inlineParen", "seqLog", "seqLogVar", "condLog", "condLogVar"}

\* line.trim().startsWith('console.')
StartsWithConsole(line) ==
    line \in {"log", "debug", "logKeep", "mlOpen", "mlNested", "logCall"}

\* line.replace(/\s*console\.(log|debug|info)\([^)]*\);\s*/, '  ')
ReplaceConsole(line) ==
    CASE line = "inline"  -> "inlineFixed"
      [] line = "log"     -> ""
      [] line = "debug"   -> ""
      [] line = "logKeep" -> "marker"
      [] line = "logCall" -> "call"
      [] OTHER            -> line

\* whether the parser throws on the content (errorRecovery does not save it)
ParseFails(content) == "broken" \in Range(content)

---------------------------------------------------------------------------
(* SafeFixConfigLoader *)

\* getDefaultConfig().whitelist.files
DefaultWhitelistFiles ==
    {"**/vendor/**", "**/generated/**", "**/node_modules/**", "**/*.min.js",
     "**/dist/**", "**/build/**"}

\* getDefaultConfig().fixes.categories['console-logs'], with minConfidence
\* in units of 1/100000
DefaultConsoleLogs == [enabled |-> TRUE, minConfidence |-> 90000]

\* a config that does not set fixes.categories['console-logs']
NoCategory == [unset |-> TRUE]

\* what SafeFixConfigLoader.load returns when the project has no config file
NoUserConfig == [whitelistFiles |-> {}, consoleLogs |-> NoCategory]

\* the project has no config file
NoConfigFile == [kind |-> "missing", whitelistFiles |-> {}, consoleLogs |-> NoCategory]

\* SafeFixConfigLoader.load: the parsed config file; a file that is missing,
\* unreadable or not valid JSON gives the empty user config
load(configFile) ==
    IF configFile.kind = "valid"
    THEN [whitelistFiles |-> configFile.whitelistFiles,
          consoleLogs |-> configFile.consoleLogs]
    ELSE NoUserConfig

\* merge: the whitelist globs of the defaults followed by the user's, and
\* the categories of the defaults with the user's entries in their place
merge(userConfig) ==
    [whitelist |-> [files |-> DefaultWhitelistFiles \cup userConfig.whitelistFiles],
     categories |->
        [consoleLogs |-> IF userConfig.consoleLogs = NoCategory
                         THEN DefaultConsoleLogs ELSE userConfig.consoleLogs]]

\* the directory <dir> of a glob **/<dir>/**
GlobDir(pattern) ==
    CASE pattern = "**/vendor/**"       -> "vendor"
      [] pattern = "**/generated/**"    -> "generated"
      [] pattern = "**/node_modules/**" -> "node_modules"
      [] pattern = "**/dist/**"         -> "dist"
      [] pattern = "**/build/**"        -> "build"
      [] pattern = "**/legacy/**"       -> "legacy"

\* new RegExp(regex).test(filePath) for the regex made from the glob:
\* **/<dir>/** gives .[^/]*/<dir>/.[^/]*, found in a path that has <dir> as
\* a directory below its first component; **/*.min.js gives
\* .[^/]*/[^/]*.min.js, found in a path whose file name ends in .min.js
GlobMatches(pattern, p) ==
    IF pattern = "**/*.min.js" THEN Basename(p) = "lib.min.js"
    ELSE \E i \in 1..(Len(p) - 1) : p[i] = GlobDir(pattern)

\* comment markers and regexes of the merged whitelist: the lines they match
PreservedLines == {"logKeep", "marker"}

\* shouldSkipFile: some glob of whitelist.files matches the path
shouldSkipFile(filePath, whitelist) ==
    \E pattern \in whitelist.files : GlobMatches(pattern, filePath)

---------------------------------------------------------------------------
(* ConsoleLogFixer *)

\* confidences are kept in units of 1/100000
ConfidenceBase    == 95000
ConfidenceLiteral == 99000
ConfidenceMin     == 90000
ConfidenceRegex   == 90000

\* isTestFile: .test./.spec. names, __tests__, test/ and tests/ directories
IsTestFile(p) ==
    \/ \E i \in 1..(Len(p) - 1) : p[i] \in {"__tests__", "test", "tests"}
    \/ Basename(p) \in {"util.test.js", "util.spec.ts"}

\* shouldPreserve(line), with the merged whitelist
ShouldPreserve(line) == line \in PreservedLines

\* mutant: a call in a sequence expression keeps its confidence
calculateConfidence_NoSequencePenalty(call) ==
    LET c0 == IF call.allStrings THEN ConfidenceLiteral ELSE ConfidenceBase
        c2 == IF call.inConditional THEN (c0 * 9) \div 10 ELSE c0
    IN c2

\* ConsoleLogFixer.calculateConfidence, in units of 1/100000
calculateConfidence(call) ==
    LET c0 == IF call.allStrings THEN ConfidenceLiteral ELSE ConfidenceBase
        c1 == IF call.inSequence THEN (c0 * 8) \div 10 ELSE c0
        c2 == IF call.inConditional THEN (c1 * 9) \div 10 ELSE c1
    IN c2

\* the CallExpression visitor, for the calls of line n
RECURSIVE VisitCalls(_, _, _, _)
VisitCalls(p, content, n, calls) ==
    IF calls = <<>> THEN <<>>
    ELSE LET call == Head(calls)
             line == content[n]
             previousLine == IF n > 1 THEN content[n - 1] ELSE ""
             rest == VisitCalls(p, content, n, Tail(calls))
         IN IF ShouldPreserve(line) \/ ShouldPreserve(previousLine)
            THEN rest
            ELSE <<[file |-> p, line |-> n, column |-> call.column,
                    code |-> call.method,
                    confidence |-> calculateConfidence(call)]>> \o rest

\* traverse(ast, ...): the fixes of lines n..Len(content), in source order
RECURSIVE TraverseFrom(_, _, _)
TraverseFrom(p, content, n) ==
    IF n > Len(content) THEN <<>>
    ELSE VisitCalls(p, content, n, CallsAt(content, n))
         \o TraverseFrom(p, content, n + 1)

RECURSIVE RegexLine(_, _, _, _)
RegexLine(p, n, col, methods) ==
    IF methods = <<>> THEN <<>>
    ELSE <<[file |-> p, line |-> n, column |-> col, code |-> Head(methods),
            confidence |-> ConfidenceRegex]>> \o RegexLine(p, n, col, Tail(methods))

\* findWithRegex
RECURSIVE findWithRegexFrom(_, _, _)
findWithRegexFrom(p, content, n) ==
    IF n > Len(content) THEN <<>>
    ELSE (IF ShouldPreserve(content[n]) THEN <<>>
          ELSE RegexLine(p, n, RegexColumn(content[n]), RegexMethods(content[n])))
         \o findWithRegexFrom(p, content, n + 1)

findWithRegex(p, content) == findWithRegexFrom(p, content, 1)

RECURSIVE FilterConfidence(_)
FilterConfidence(fixes) ==
    IF fixes = <<>> THEN <<>>
    ELSE (IF Head(fixes).confidence >= ConfidenceMin THEN <<Head(fixes)>> ELSE <<>>)
         \o FilterConfidence(Tail(fixes))

\* mutant: the test-file check is left out
findConsoleLogStatements_NoTestSkip(p, content) ==
    IF ParseFails(content) THEN findWithRegex(p, content)
    ELSE FilterConfidence(TraverseFrom(p, content, 1))

findConsoleLogStatements(p, content) ==
    IF IsTestFile(p) THEN <<>>
    ELSE IF ParseFails(content) THEN findWithRegex(p, content)
    ELSE FilterConfidence(TraverseFrom(p, content, 1))

\* the forward scan for the line that closes a multi-line statement:
\* the first index i > lineIndex with lines[i].includes(');'), else lineIndex
RECURSIVE ScanCloser(_, _, _)
ScanCloser(content, n, i) ==
    IF i > Len(content) THEN n
    ELSE IF IncludesCloser(content[i]) THEN i
    ELSE ScanCloser(content, n, i + 1)

EndLineOf(content, n) ==
    IF ~EndsWithCloser(content[n]) THEN ScanCloser(content, n, n + 1) ELSE n

\* 'debug' / 'info' / 'log', from fix.code.includes(...)
DescMethod(code) == IF code = "debug" THEN "debug" ELSE IF code = "info" THEN "info" ELSE "log"

RemoveChange(p, n, line, desc) ==
    [file |-> p, line |-> n, type |-> "remove", oldContent |-> line,
     newContent |-> "undefined", description |-> desc]

ReplaceChange(p, n, line, newLine, desc) ==
    [file |-> p, line |-> n, type |-> "replace", oldContent |-> line,
     newContent |-> newLine, description |-> desc]

RECURSIVE MultiLineChanges(_, _, _, _)
MultiLineChanges(p, content, i, endLine) ==
    IF i > endLine THEN <<>>
    ELSE <<RemoveChange(p, i, content[i], <<"multi-line", "log">>)>>
         \o MultiLineChanges(p, content, i + 1, endLine)

\* the changes pushed for one fix that is not skipped
ChangesForFix(p, content, fix) ==
    LET n == fix.line
        line == content[n]
        endLine == EndLineOf(content, n)
    IN IF n = endLine
       THEN IF StartsWithConsole(line)
            THEN <<RemoveChange(p, n, line, <<"statement", DescMethod(fix.code)>>)>>
            ELSE <<ReplaceChange(p, n, line, ReplaceConsole(line),
                                 <<"from line", DescMethod(fix.code)>>)>>
       ELSE MultiLineChanges(p, content, n, endLine)

\* the loop of removeConsoleLogs over sortedFixes
RECURSIVE RemoveLoop(_, _, _, _)
RemoveLoop(p, content, sortedFixes, processedLines) ==
    IF sortedFixes = <<>> THEN <<>>
    ELSE LET fix == Head(sortedFixes)
         IN IF fix.line \in processedLines
            THEN RemoveLoop(p, content, Tail(sortedFixes), processedLines)
            ELSE ChangesForFix(p, content, fix)
                 \o RemoveLoop(p, content, Tail(sortedFixes),
                               processedLines \cup (fix.line..EndLineOf(content, fix.line)))

removeConsoleLogs(p, content, fixes) ==
    RemoveLoop(p, content, SortDescByLine(fixes), {})

---------------------------------------------------------------------------
(* File contents *)

\* lines.join('\n') followed by a later content.split('\n'): an array that
\* became empty is written as the empty string, which reads back as one
\* empty line
JoinSplit(lines) == IF lines = <<>> THEN <<"">> ELSE lines

\* lines.splice(i, 1) with the 1-based index n = i + 1
SpliceOut(lines, n) ==
    IF n < 1 \/ n > Len(lines) THEN lines
    ELSE SubSeq(lines, 1, n - 1) \o SubSeq(lines, n + 1, Len(lines))

\* lines.splice(i + 1, 0, x) with n = i + 1: insert after line n
SpliceIn(lines, n, x) ==
    IF n >= Len(lines) THEN Append(lines, x)
    ELSE SubSeq(lines, 1, n) \o <<x>> \o SubSeq(lines, n + 1, Len(lines))

\* holes left by an assignment past the end of the array join as ''
RECURSIVE PadTo(_, _)
PadTo(lines, n) == IF Len(lines) >= n THEN lines ELSE PadTo(Append(lines, ""), n)

\* lines[i] = x with n = i + 1
AssignLine(lines, n, x) == [PadTo(lines, n) EXCEPT ![n] = x]

\* one case of the switch in applyChangesToFile / generateDiff
ApplyChange(lines, change) ==
    CASE change.type = "remove" -> SpliceOut(lines, change.line)
      [] change.type = "replace" ->
            IF change.newContent # "undefined"
            THEN AssignLine(lines, change.line, change.newContent) ELSE lines
      [] change.type = "add" ->
            IF change.newContent # "undefined"
            THEN SpliceIn(lines, change.line, change.newContent) ELSE lines
      [] OTHER -> lines

RECURSIVE ApplySorted(_, _)
ApplySorted(lines, sortedChanges) ==
    IF sortedChanges = <<>> THEN lines
    ELSE ApplySorted(ApplyChange(lines, Head(sortedChanges)), Tail(sortedChanges))

\* mutant: the changes are applied in the order of the list
applyChangesToFile_Unsorted(content, changes) ==
    JoinSplit(ApplySorted(content, changes))

\* SafeFixer.applyChangesToFile: the content written for the file
applyChangesToFile(content, changes) ==
    JoinSplit(ApplySorted(content, SortDescByLine(changes)))

\* the changes of one file, in ChangeSet order (one value of fileGroups)
RECURSIVE ChangesOf(_, _)
ChangesOf(changes, p) ==
    IF changes = <<>> THEN <<>>
    ELSE (IF Head(changes).file = p THEN <<Head(changes)>> ELSE <<>>)
         \o ChangesOf(Tail(changes), p)

\* changes.map(c => c.file)
RECURSIVE FilesOf(_)
FilesOf(changes) ==
    IF changes = <<>> THEN <<>> ELSE <<Head(changes).file>> \o FilesOf(Tail(changes))

\* the keys of fileGroups, in insertion order
FileGroups(changes) == Distinct(FilesOf(changes))

---------------------------------------------------------------------------
(* ChangeSet summaries *)

\* a description is a pair: the kind of edit and the console method it names,
\*   <<"statement", m>>   'Remove console.<m> statement'
\*   <<"from line", m>>   'Remove console.<m> from line'
\*   <<"multi-line", m>>  'Remove multi-line console.log statement'
\* description.includes('console.')
IncludesConsoleDot(description) == description[2] \in {"log", "debug", "info"}

\* description.includes('console.log')
IncludesConsoleLog(description) == description[2] = "log"

\* SafeFixer.getChangeType; no description of the fixer holds 'debugger'
getChangeType(change) ==
    IF IncludesConsoleDot(change.description) THEN "console.log" ELSE "other"

\* ChangePreview.getChangeType; no description of the fixer holds 'debugger'
\* or 'comment'
ChangePreview_getChangeType(change) ==
    IF IncludesConsoleLog(change.description) THEN "console.log" ELSE "other"

\* this.getChangeType(change) of each change, in order, in SafeFixer
TypesOf(changes) == [i \in 1..Len(changes) |-> getChangeType(changes[i])]

\* this.getChangeType(change) of each change, in order, in ChangePreview
ChangePreview_TypesOf(changes) ==
    [i \in 1..Len(changes) |-> ChangePreview_getChangeType(changes[i])]

\* the loop that fills changesByType: one key per type met, with its count
CountByType(types) ==
    [type \in Range(types) |-> Cardinality({i \in 1..Len(types) : types[i] = type})]

\* SafeFixer.calculateSummary
calculateSummary(changes) ==
    [totalFiles    |-> Cardinality(Range(FilesOf(changes))),
     totalChanges  |-> Len(changes),
     changesByType |-> CountByType(TypesOf(changes))]

\* ChangePreview.calculateSummary
ChangePreview_calculateSummary(changes) ==
    [totalFiles    |-> Cardinality(Range(FilesOf(changes))),
     totalChanges  |-> Len(changes),
     changesByType |-> CountByType(ChangePreview_TypesOf(changes))]

MakeChangeSet(changes) == [changes |-> changes, summary |-> calculateSummary(changes)]

EmptyChangeSet == MakeChangeSet(<<>>)

---------------------------------------------------------------------------
(* BackupSystem *)

NoHandle == [id |-> "none"]

\* crypto.randomBytes(8).toString('hex') of the one createBackup of a run
BackupId == "b1"

\* this.tempDir
TempDir == <<"tmp", "vibesweep-backups">>

\* path.join(this.tempDir, `backup-${backupId}`)
BackupDirOf(id) == PathJoin(TempDir, id)

EmptyMap == [x \in {} |-> x]

\* map.set(k, v)
MapSet(map, k, v) == [x \in DOMAIN map \cup {k} |-> IF x = k THEN v ELSE map[x]]

\* the loop of createBackup over filePaths: st = [files, fs]; the copy of a
\* path in failed throws (unreadable source, unwritable backup) and is skipped
RECURSIVE BackupLoop(_, _, _, _, _)
BackupLoop(filePaths, failed, backupDir, content, st) ==
    IF filePaths = <<>> THEN st
    ELSE LET filePath == Head(filePaths)
             backupPath == PathJoin(backupDir, Basename(filePath))
             next == IF filePath \in failed THEN st
                     ELSE [files |-> MapSet(st.files, filePath, backupPath),
                           fs    |-> MapSet(st.fs, backupPath, content[filePath])]
         IN BackupLoop(Tail(filePaths), failed, backupDir, content, next)

\* the entry of a directory in the file system: a path with no content
Directory == <<>>

\* BackupSystem.createBackup: the handle and the backup directory it makes
\* and fills
createBackup(backupId, timestamp, filePaths, failed, content, fs) ==
    LET backupDir == BackupDirOf(backupId)
        st == BackupLoop(filePaths, failed, backupDir, content,
                         [files |-> EmptyMap, fs |-> MapSet(fs, backupDir, Directory)])
    IN [handle |-> [id |-> backupId, timestamp |-> timestamp, backupDir |-> backupDir,
                    files |-> st.files],
        fs |-> st.fs]

\* the entries of the handle that restore can copy back: the backup is
\* readable and the write of the original does not fail
Restorable(handle, failed, fs) ==
    {p \in DOMAIN handle.files : p \notin failed /\ handle.files[p] \in DOMAIN fs}

\* restore that gives up as a whole when one entry cannot be restored
restore_AllOrNothing(handle, failed, content, fs) ==
    IF Restorable(handle, failed, fs) # DOMAIN handle.files THEN content
    ELSE [p \in DOMAIN content |->
            IF p \in DOMAIN handle.files THEN fs[handle.files[p]] ELSE content[p]]

\* BackupSystem.restore: the target files after the loop
restore(handle, failed, content, fs) ==
    [p \in DOMAIN content |->
        IF p \in Restorable(handle, failed, fs) THEN fs[handle.files[p]]
        ELSE content[p]]

\* fs.rm(handle.backupDir, { recursive, force }): the directory and what is
\* under it are gone; a directory that is not there is no error
cleanupFs(handle, fs) ==
    [bp \in {q \in DOMAIN fs : SubSeq(q, 1, Len(handle.backupDir)) # handle.backupDir}
        |-> fs[bp]]

\* map.delete(k)
MapDelete(map, k) == [x \in DOMAIN map \ {k} |-> map[x]]

\* mutant: the handle stays in the registry
cleanup_KeepsHandle(handle, registry, fs, ok) ==
    [fs |-> IF ok THEN cleanupFs(handle, fs) ELSE fs, backups |-> registry]

\* BackupSystem.cleanup: when fs.rm throws, the error is caught and logged
\* and the registry keeps the handle
cleanup(handle, registry, fs, ok) ==
    IF ok
    THEN [fs |-> cleanupFs(handle, fs), backups |-> MapDelete(registry, handle.id)]
    ELSE [fs |-> fs, backups |-> registry]

\* the loop of cleanupOldBackups over the entries of the registry, rest being
\* the ids not visited yet: a handle made before cutoffTime is cleaned up
RECURSIVE SweepLoop(_, _, _)
SweepLoop(rest, cutoffTime, st) ==
    IF rest = {} THEN st
    ELSE LET id == CHOOSE id \in rest : TRUE
             handle == st.backups[id]
         IN SweepLoop(rest \ {id}, cutoffTime,
                      IF handle.timestamp < cutoffTime
                      THEN cleanup(handle, st.backups, st.fs, TRUE)
                      ELSE st)

\* BackupSystem.cleanupOldBackups, with times in hours
cleanupOldBackups(maxAgeHours, now, registry, fs) ==
    LET cutoffTime == now - maxAgeHours
    IN SweepLoop(DOMAIN registry, cutoffTime, [fs |-> fs, backups |-> registry])

\* the sets of at most MaxFaults files of S whose I/O can fail in one call
FaultSets(S) == {F \in SUBSET S : Cardinality(F) <= MaxFaults}

---------------------------------------------------------------------------
(* GitSafety *)

DirtyTreeMessage == "Working tree is not clean. Please commit or stash your changes before running fixes."

GitStatusMessage == "Failed to check git status"

AbortedMessage == "Aborted due to failing validation checks"

RolledBackMessage == "Validation failed - changes rolled back"

IoErrorMessage == "EACCES: permission denied"

\* `vibesweep-backup-${timestamp}`
BackupBranchName == "vibesweep-backup-T"

\* isGitRepository: git rev-parse --git-dir succeeds
isGitRepository(e) == e.repo # "none"

\* checkGitStatus: throws outside a repository
checkGitStatus(e) ==
    IF e.repo = "none" THEN [threw |-> TRUE, error |-> GitStatusMessage]
    ELSE [threw |-> FALSE, isClean |-> (e.repo = "clean")]

\* mutant: the status is read and isClean is never tested
requireCleanWorkingTree_NoTest(e) ==
    LET status == checkGitStatus(e)
    IN IF status.threw THEN status.error ELSE "ok"

\* requireCleanWorkingTree: the error it throws, or "ok"
requireCleanWorkingTree(e) ==
    LET status == checkGitStatus(e)
    IN IF status.threw THEN status.error
       ELSE IF ~status.isClean THEN DirtyTreeMessage
       ELSE "ok"

---------------------------------------------------------------------------
(* ValidationSuite *)

NoCommand == "undefined"

NoPackageJson == [exists |-> FALSE]

\* detectCommands: the config after auto-detection from package.json
detectCommands(config, pkg) ==
    IF ~pkg.exists THEN config
    ELSE [config EXCEPT
            !.testCommand = IF @ # NoCommand THEN @
                            ELSE IF "test" \in pkg.scripts THEN "scripts.test" ELSE "npm test",
            !.typeCheckCommand =
                IF @ # NoCommand THEN @
                ELSE IF "type-check" \in pkg.scripts THEN "npm run type-check"
                ELSE IF "typecheck" \in pkg.scripts THEN "npm run typecheck"
                ELSE IF "tsc" \in pkg.scripts THEN "npm run tsc"
                ELSE IF pkg.typescript THEN "npx tsc --noEmit"
                ELSE NoCommand,
            !.lintCommand = IF @ # NoCommand THEN @
                            ELSE IF "lint" \in pkg.scripts THEN "scripts.lint" ELSE "npm run lint"]

\* `Custom: ${command}`
CustomName(command) == IF command = "c1" THEN "Custom: c1" ELSE "Custom: c2"

RECURSIVE CustomChecks(_)
CustomChecks(commands) ==
    IF commands = <<>> THEN <<>>
    ELSE <<CustomName(Head(commands))>> \o CustomChecks(Tail(commands))

\* the checks that run executes, in order
ChecksToRun(config, pkg) ==
    LET c == detectCommands(config, pkg)
    IN (IF c.runTests /\ c.testCommand # NoCommand THEN <<"Tests">> ELSE <<>>)
       \o (IF c.runTypeCheck /\ c.typeCheckCommand # NoCommand THEN <<"Type Check">> ELSE <<>>)
       \o (IF c.runLinter /\ c.lintCommand # NoCommand THEN <<"Linter">> ELSE <<>>)
       \o CustomChecks(c.customCommands)

\* mutant: the loop over the checks stops at the first failed check
RECURSIVE RunLoop_ShortCircuit(_, _, _, _)
RunLoop_ShortCircuit(checks, failing, i, acc) ==
    IF i > Len(checks) THEN acc
    ELSE IF i \in failing
    THEN [acc EXCEPT !.executed = Append(@, checks[i]), !.failed = Append(@, checks[i])]
    ELSE RunLoop_ShortCircuit(checks, failing, i + 1,
            [acc EXCEPT !.executed = Append(@, checks[i]), !.passed = Append(@, checks[i])])

\* the sequence of runCommand calls of run and the push that follows each:
\* the i-th check is executed, then pushed to failed if i is in failing
\* (its command exits non-zero or times out), else to passed
RECURSIVE RunLoop(_, _, _, _)
RunLoop(checks, failing, i, acc) ==
    IF i > Len(checks) THEN acc
    ELSE RunLoop(checks, failing, i + 1,
            IF i \in failing
            THEN [acc EXCEPT !.executed = Append(@, checks[i]), !.failed = Append(@, checks[i])]
            ELSE [acc EXCEPT !.executed = Append(@, checks[i]), !.passed = Append(@, checks[i])])

\* ValidationSuite.run; failing holds the positions, in the order of
\* execution, of the checks whose command fails
run(config, pkg, failing) ==
    LET acc == RunLoop(ChecksToRun(config, pkg), failing, 1,
                       [executed |-> <<>>, passed |-> <<>>, failed |-> <<>>])
    IN [success  |-> acc.failed = <<>>,
        executed |-> acc.executed,
        passed   |-> acc.passed,
        failed   |-> acc.failed]

\* the outcomes the commands of one run can have
Outcomes(config, pkg) == SUBSET (1..Len(ChecksToRun(config, pkg)))

NoValidation == [success |-> TRUE, executed |-> <<>>, passed |-> <<>>, failed |-> <<>>]

---------------------------------------------------------------------------
(* SafeFixer: the configurations and projects of a run *)

\* the two ValidationConfig values the fix command builds
ValidationOn ==
    [runTests |-> TRUE, runTypeCheck |-> TRUE, runLinter |-> TRUE,
     testCommand |-> NoCommand, typeCheckCommand |-> NoCommand,
     lintCommand |-> NoCommand, customCommands |-> <<>>]

ValidationOff ==
    [runTests |-> FALSE, runTypeCheck |-> FALSE, runLinter |-> FALSE,
     testCommand |-> NoCommand, typeCheckCommand |-> NoCommand,
     lintCommand |-> NoCommand, customCommands |-> <<>>]

\* a package.json with a test script and no typescript
PackageJson == [exists |-> TRUE, scripts |-> {"test"}, typescript |-> FALSE]

Configs ==
    [dryRun : BOOLEAN, autoConfirm : BOOLEAN, requireGitClean : BOOLEAN,
     requireBackup : BOOLEAN, maxFilesPerRun : 0..NumFiles,
     validation : {ValidationOn, ValidationOff},
     consoleLogs : BOOLEAN]

Envs == [repo : {"none", "clean", "dirty"}, packageJson : {NoPackageJson, PackageJson},
         configFile : {NoConfigFile}, clock : {0}]

\* contents of the target files when the run starts
Contents == {<<"code">>, <<"log", "code">>, <<"log", "inline">>}

Decisions == {"accept", "reject", "partial", "skip", "undefined"}

InitResult ==
    [success |-> FALSE, filesModified |-> 0, changesApplied |-> 0,
     backupId |-> "undefined", errors |-> <<>>]

InitHist ==
    [cleanChecked   |-> FALSE,   \* requireCleanWorkingTree returned
     collected      |-> FALSE,   \* collectFixes returned
     written        |-> {},      \* targets written by applyChangesToFile
     backupCreated  |-> FALSE,   \* createBackup was called
     backupFailed   |-> {},      \* files createBackup could not copy
     validated      |-> FALSE,   \* the post-apply validation ran
     restored       |-> FALSE,   \* restore was called
     restoreFailed  |-> {},      \* files restore could not copy back
     cleaned        |-> FALSE,   \* cleanup was called
     commitOffered  |-> FALSE,   \* the commit prompt was shown
     commitFailed   |-> FALSE,   \* git add / git commit of commitChanges failed
     prompted       |-> {},      \* the prompts shown to the operator
     baseline       |-> "none",  \* outcome of the validation run of PREFLIGHT
     declined       |-> FALSE,   \* the operator answered no to 'Continue anyway?'
     failures       |-> {},      \* the collaborators whose call has thrown
     modifiedContent |-> EmptyMap, \* what generateDiff computed, per file shown
     created        |-> EmptyMap, \* backup directory -> time createBackup made it
     rmFailed       |-> FALSE,   \* fs.rm of the last cleanup call has thrown
     cleanedAgain   |-> FALSE,   \* cleanup was called for a backup already removed
     exit           |-> "none"]  \* how runSafeFixes returned

Init ==
    /\ cfg \in Configs
    /\ env \in Envs
    /\ targetFiles = [i \in 1..NumFiles |-> PathOf(i)]
    /\ disk \in [Targets -> Contents]
    /\ disk0 = disk
    /\ git = [branches |-> {}, commits |-> 0]
    /\ pc = "preflight"
    /\ foundFixes = <<>>
    /\ changeSet = EmptyChangeSet
    /\ finalChangeSet = EmptyChangeSet
    /\ decision = "none"
    /\ backup = NoHandle
    /\ backupFs = EmptyMap
    /\ backups = EmptyMap
    /\ applyQueue = <<>>
    /\ validationResult = NoValidation
    /\ result = InitResult
    /\ exitCode = <<>>
    /\ hist = InitHist

---------------------------------------------------------------------------
(* SafeFixer.runSafeFixes *)

\* return result, from inside the try block
Return(res, how) ==
    /\ result' = res
    /\ pc' = "done"
    /\ hist' = [hist EXCEPT !.exit = how]

\* the catch block of runSafeFixes, then return result
Catch(message) ==
    /\ result' = [result EXCEPT !.errors = Append(@, message)]
    /\ pc' = "done"

\* mutant: autoConfirm is not looked at when the baseline is red
BaselineAborts_NoAutoConfirm(baseline, c, continue) == ~baseline.success /\ ~continue

\* the baseline is red, the run is not pre-authorized and the operator says no
BaselineAborts(baseline, c, continue) ==
    ~baseline.success /\ ~c.autoConfirm /\ ~continue

\* mutant: the branch command is not run
createBackupBranch_NoBranch(g) == g

\* GitSafety.createBackupBranch: git branch vibesweep-backup-<timestamp>
createBackupBranch(g) == [g EXCEPT !.branches = @ \cup {BackupBranchName}]

\* mutant: the guard forgets isGitRepository
GitCheckWanted_NoRepoTest(c, e) == c.requireGitClean

\* the guard of the git check in performPreFlightChecks
GitCheckWanted(c, e) == c.requireGitClean /\ isGitRepository(e)

\* performPreFlightChecks
PreFlight ==
    /\ pc = "preflight"
    /\ UNCHANGED <<foundFixes, exitCode, cfg, env, targetFiles, disk, disk0, changeSet, finalChangeSet,
                   decision, backup, backupFs, backups, applyQueue, validationResult>>
    /\ IF GitCheckWanted(cfg, env) /\ requireCleanWorkingTree(env) # "ok"
       THEN /\ Catch(requireCleanWorkingTree(env))
            /\ hist' = [hist EXCEPT !.exit = "error", !.failures = @ \cup {"vcs"}]
            /\ UNCHANGED git
       ELSE /\ git' = IF GitCheckWanted(cfg, env) THEN createBackupBranch(git) ELSE git
            /\ \E failing \in Outcomes(cfg.validation, env.packageJson),
                  continue \in BOOLEAN :
                 LET baseline == run(cfg.validation, env.packageJson, failing)
                     asked == ~baseline.success /\ ~cfg.autoConfirm
                     checked == [hist EXCEPT
                                   !.cleanChecked = GitCheckWanted(cfg, env),
                                   !.baseline = IF baseline.success THEN "green" ELSE "red",
                                   !.prompted = IF asked THEN @ \cup {"continue"} ELSE @,
                                   !.declined = asked /\ ~continue]
                 IN IF BaselineAborts(baseline, cfg, continue)
                    THEN /\ Catch(AbortedMessage)
                         /\ hist' = [checked EXCEPT !.exit = "error"]
                    ELSE /\ pc' = "collect"
                         /\ hist' = checked
                         /\ UNCHANGED result

\* the loop of collectFixes over filesToProcess
RECURSIVE CollectLoop(_, _)
CollectLoop(files, content) ==
    IF files = <<>> THEN <<>>
    ELSE LET file == Head(files)
             fixes == findConsoleLogStatements(file, content[file])
         IN (IF IsJsTs(file) /\ fixes # <<>>
             THEN removeConsoleLogs(file, content[file], fixes) ELSE <<>>)
            \o CollectLoop(Tail(files), content)

\* collectFixes without the slice to maxFilesPerRun
collectFixes_NoCap(files, content, c, whitelist) ==
    LET filteredFiles ==
            SelectSeqBy(files, {f \in Range(files) : ~shouldSkipFile(f, whitelist)})
    IN MakeChangeSet(IF c.consoleLogs THEN CollectLoop(filteredFiles, content) ELSE <<>>)

\* collectFixes without the whitelist filter
collectFixes_NoFilter(files, content, c, whitelist) ==
    LET filesToProcess == Slice0(files, c.maxFilesPerRun)
    IN MakeChangeSet(IF c.consoleLogs THEN CollectLoop(filesToProcess, content) ELSE <<>>)

\* SafeFixer.collectFixes
collectFixes(files, content, c, whitelist) ==
    LET filteredFiles ==
            SelectSeqBy(files, {f \in Range(files) : ~shouldSkipFile(f, whitelist)})
        filesToProcess == Slice0(filteredFiles, c.maxFilesPerRun)
    IN MakeChangeSet(IF c.consoleLogs THEN CollectLoop(filesToProcess, content) ELSE <<>>)

\* the files that findConsoleLogStatements reads in collectFixes; a read
\* that fails throws out of collectFixes
ReadByCollect(files, c, whitelist) ==
    IF c.consoleLogs
    THEN {f \in Range(Slice0(SelectSeqBy(files,
                 {g \in Range(files) : ~shouldSkipFile(g, whitelist)}), c.maxFilesPerRun)) :
             IsJsTs(f)}
    ELSE {}

\* Phase 2
Collect ==
    /\ pc = "collect"
    /\ LET whitelist == merge(load(env.configFile)).whitelist
       IN \E ok \in IF ReadByCollect(targetFiles, cfg, whitelist) = {}
                    THEN {TRUE} ELSE BOOLEAN :
            IF ok
            THEN /\ changeSet' = collectFixes(targetFiles, disk, cfg, whitelist)
                 /\ IF changeSet'.changes = <<>>
                    THEN /\ result' = [result EXCEPT !.success = TRUE]
                         /\ pc' = "done"
                         /\ hist' = [hist EXCEPT !.collected = TRUE, !.exit = "empty"]
                    ELSE /\ pc' = "preview"
                         /\ hist' = [hist EXCEPT !.collected = TRUE]
                         /\ UNCHANGED result
            ELSE /\ Catch(IoErrorMessage)
                 /\ hist' = [hist EXCEPT !.exit = "error", !.failures = @ \cup {"collect"}]
                 /\ UNCHANGED changeSet
    /\ UNCHANGED <<foundFixes, exitCode, cfg, env, targetFiles, disk, disk0, git, finalChangeSet, decision,
                   backup, backupFs, backups, applyQueue, validationResult>>

\* mutant: 'skip' is not treated as a cancellation
IsCancel_RejectOnly(d) == d = "reject"

\* decision === 'reject' || decision === 'skip'
IsCancel(d) == d = "reject" \/ d = "skip"

\* Phase 3: showInteractive and the branches on its decision
Preview ==
    /\ pc = "preview"
    /\ \E d \in Decisions :
         /\ decision' = d
         /\ IF IsCancel(d)
            THEN /\ result' = [result EXCEPT !.success = TRUE]
                 /\ pc' = "done"
                 /\ hist' = [hist EXCEPT !.exit = "cancelled",
                                         !.prompted = @ \cup {"decision"}]
                 /\ UNCHANGED finalChangeSet
            ELSE IF d = "partial"
            THEN /\ pc' = "select"
                 /\ hist' = [hist EXCEPT !.prompted = @ \cup {"decision"}]
                 /\ UNCHANGED <<finalChangeSet, result>>
            ELSE /\ finalChangeSet' = changeSet
                 /\ pc' = "backup"
                 /\ hist' = [hist EXCEPT !.prompted = @ \cup {"decision"}]
                 /\ UNCHANGED result
    /\ UNCHANGED <<foundFixes, exitCode, cfg, env, targetFiles, disk, disk0, git, changeSet,
                   backup, backupFs, backups, applyQueue, validationResult>>

\* mutant: the changes are applied in the order of the list
generateDiff_Unsorted(content, changes) ==
    JoinSplit(ApplySorted(content, changes))

\* ChangePreview.generateDiff: modifiedContent, the text the diff is taken
\* against, computed on a copy of the lines that were read
generateDiff(content, changes) ==
    LET modifiedLines == content
        sortedChanges == SortDescByLine(changes)
    IN JoinSplit(ApplySorted(modifiedLines, sortedChanges))

\* the changes of file p at the positions of keep, in order: 'yes' keeps
\* every change of the file, 'no' none, 'individual' the confirmed ones
RECURSIVE Pick(_, _, _, _)
Pick(changes, keep, p, i) ==
    IF i > Len(changes) THEN <<>>
    ELSE (IF i \in keep /\ changes[i].file = p THEN <<changes[i]>> ELSE <<>>)
         \o Pick(changes, keep, p, i + 1)

\* the loop of selectChanges over changesByFile, in insertion order
RECURSIVE ReviewFiles(_, _, _)
ReviewFiles(changes, keep, files) ==
    IF files = <<>> THEN <<>>
    ELSE Pick(changes, keep, Head(files), 1) \o ReviewFiles(changes, keep, Tail(files))

\* mutant: the selection is returned with the summary of the input
selectChanges_InputSummary(cs, keep) ==
    [changes |-> ReviewFiles(cs.changes, keep, FileGroups(cs.changes)),
     summary |-> cs.summary]

\* ChangePreview.selectChanges: the operator's answers select the changes
\* at the positions of keep
selectChanges(cs, keep) ==
    LET selectedChanges == ReviewFiles(cs.changes, keep, FileGroups(cs.changes))
    IN [changes |-> selectedChanges,
        summary |-> ChangePreview_calculateSummary(selectedChanges)]

\* the modifiedContent of the generateDiff call for each file group
DiffsShown(cs, content) ==
    [p \in Range(FileGroups(cs.changes)) |->
        generateDiff(content[p], ChangesOf(cs.changes, p))]

\* Phase 3, decision 'partial'
SelectChanges ==
    /\ pc = "select"
    /\ \E keep \in SUBSET (1..Len(changeSet.changes)) :
         /\ finalChangeSet' = selectChanges(changeSet, keep)
         /\ IF finalChangeSet'.changes = <<>>
            THEN /\ result' = [result EXCEPT !.success = TRUE]
                 /\ pc' = "done"
                 /\ hist' = [hist EXCEPT !.exit = "noneSelected",
                                         !.prompted = @ \cup {"review"},
                                         !.modifiedContent = DiffsShown(changeSet, disk)]
            ELSE /\ pc' = "backup"
                 /\ hist' = [hist EXCEPT !.prompted = @ \cup {"review"},
                                         !.modifiedContent = DiffsShown(changeSet, disk)]
                 /\ UNCHANGED result
    /\ UNCHANGED <<foundFixes, exitCode, cfg, env, targetFiles, disk, disk0, git, changeSet, decision,
                   backup, backupFs, backups, applyQueue, validationResult>>

\* mutant: the negation of dryRun in the backup guard is lost
BackupWanted_DryRunOnly(c) == c.requireBackup /\ c.dryRun

\* the else branch of if (this.config.dryRun) in Phase 5
ApplyWanted(c) == ~c.dryRun

\* mutant: the dry-run test of the backup guard is dropped
BackupWanted_NoDryRunTest(c) == c.requireBackup

\* this.config.requireBackup && !this.config.dryRun
BackupWanted(c) == c.requireBackup /\ ~c.dryRun

\* Phase 4: createBackup of the files of the final ChangeSet
Backup ==
    /\ pc = "backup"
    /\ LET filesToBackup == Distinct(FilesOf(finalChangeSet.changes))
       IN IF BackupWanted(cfg)
          THEN \/ \E failed \in FaultSets(Range(filesToBackup)) :
                    LET made == createBackup(BackupId, env.clock, filesToBackup, failed,
                                             disk, backupFs)
                    IN /\ backup' = made.handle
                       /\ backupFs' = made.fs
                       /\ backups' = MapSet(backups, made.handle.id, made.handle)
                       /\ result' = [result EXCEPT !.backupId = made.handle.id]
                       /\ hist' = [hist EXCEPT !.backupCreated = TRUE,
                                               !.backupFailed = failed]
                       /\ applyQueue' = FileGroups(finalChangeSet.changes)
                       /\ pc' = IF ApplyWanted(cfg) THEN "apply" ELSE "dryrun"
               \/ \* fs.mkdir of the backup directory throws
                  /\ Catch(IoErrorMessage)
                  /\ hist' = [hist EXCEPT !.exit = "error", !.failures = @ \cup {"backup"}]
                  /\ UNCHANGED <<backup, backupFs, backups, applyQueue>>
          ELSE /\ applyQueue' = FileGroups(finalChangeSet.changes)
               /\ pc' = IF ApplyWanted(cfg) THEN "apply" ELSE "dryrun"
               /\ UNCHANGED <<backup, backupFs, backups, result, hist>>
    /\ UNCHANGED <<foundFixes, exitCode, cfg, env, targetFiles, disk, disk0, git, changeSet, finalChangeSet,
                   decision, validationResult>>

\* Phase 5 to 7 of a dry run: showDryRunSummary, no validation, no cleanup,
\* no commit prompt
DryRunSummary ==
    /\ pc = "dryrun"
    /\ Return([result EXCEPT !.success = TRUE], "dryrun")
    /\ UNCHANGED <<foundFixes, exitCode, cfg, env, targetFiles, disk, disk0, git, changeSet, finalChangeSet,
                   decision, backup, backupFs, backups, applyQueue, validationResult>>

\* applyFixes: one iteration of the loop over fileGroups; readFile or
\* writeFile of the file may throw
ApplyFile ==
    /\ pc = "apply"
    /\ applyQueue # <<>>
    /\ LET filePath == Head(applyQueue)
           changes == ChangesOf(finalChangeSet.changes, filePath)
       IN \E ok \in BOOLEAN :
            IF ok
            THEN /\ disk' = [disk EXCEPT ![filePath] = applyChangesToFile(@, changes)]
                 /\ applyQueue' = Tail(applyQueue)
                 /\ hist' = [hist EXCEPT !.written = @ \cup {filePath}]
                 /\ UNCHANGED <<pc, result>>
            ELSE /\ Catch(IoErrorMessage)
                 /\ hist' = [hist EXCEPT !.exit = "error", !.failures = @ \cup {"apply"}]
                 /\ UNCHANGED <<disk, applyQueue>>
    /\ UNCHANGED <<foundFixes, exitCode, cfg, env, targetFiles, disk0, git, changeSet, finalChangeSet,
                   decision, backup, backupFs, backups, validationResult>>

\* applyFixes returned: the counts of the result record
ApplyDone ==
    /\ pc = "apply"
    /\ applyQueue = <<>>
    /\ result' = [result EXCEPT !.filesModified = finalChangeSet.summary.totalFiles,
                                !.changesApplied = Len(finalChangeSet.changes)]
    /\ pc' = "validate"
    /\ UNCHANGED <<foundFixes, exitCode, cfg, env, targetFiles, disk, disk0, git, changeSet, finalChangeSet,
                   decision, backup, backupFs, backups, applyQueue, validationResult,
                   hist>>

\* if (backup) after a failed validation
RollbackWanted(b) == b # NoHandle

\* Phase 6: the post-apply validation
Validate ==
    /\ pc = "validate"
    /\ \E failing \in Outcomes(cfg.validation, env.packageJson) :
         /\ validationResult' = run(cfg.validation, env.packageJson, failing)
         /\ pc' = IF ~validationResult'.success /\ RollbackWanted(backup)
                  THEN "rollback" ELSE "cleanup"
    /\ hist' = [hist EXCEPT !.validated = TRUE]
    /\ UNCHANGED <<foundFixes, exitCode, cfg, env, targetFiles, disk, disk0, git, changeSet, finalChangeSet,
                   decision, backup, backupFs, backups, applyQueue, result>>

\* Phase 6, rollback: restore, then return the result
Rollback ==
    /\ pc = "rollback"
    /\ \E failed \in FaultSets(DOMAIN backup.files) :
         /\ disk' = restore(backup, failed, disk, backupFs)
         /\ hist' = [hist EXCEPT !.restored = TRUE,
                       !.restoreFailed = DOMAIN backup.files \ Restorable(backup, failed, backupFs),
                       !.exit = "rolledBack"]
    /\ result' = [result EXCEPT !.errors = Append(@, RolledBackMessage)]
    /\ pc' = "done"
    /\ UNCHANGED <<foundFixes, exitCode, cfg, env, targetFiles, disk0, git, changeSet, finalChangeSet,
                   decision, backup, backupFs, backups, applyQueue, validationResult>>

\* Phase 7: cleanup of the backup, success, and the way to the commit prompt;
\* the removal of the directory the run has just filled succeeds
Cleanup ==
    /\ pc = "cleanup"
    /\ IF ~cfg.dryRun /\ backup # NoHandle
       THEN /\ backupFs' = cleanup(backup, backups, backupFs, TRUE).fs
            /\ backups' = cleanup(backup, backups, backupFs, TRUE).backups
            /\ hist' = [hist EXCEPT !.cleaned = TRUE,
                          !.exit = IF isGitRepository(env) THEN @ ELSE "success"]
       ELSE /\ UNCHANGED <<backupFs, backups>>
            /\ hist' = [hist EXCEPT
                          !.exit = IF isGitRepository(env) THEN @ ELSE "success"]
    /\ result' = [result EXCEPT !.success = TRUE]
    /\ pc' = IF ~cfg.dryRun /\ isGitRepository(env) THEN "commit" ELSE "done"
    /\ UNCHANGED <<foundFixes, exitCode, cfg, env, targetFiles, disk, disk0, git, changeSet, finalChangeSet,
                   decision, backup, applyQueue, validationResult>>

\* mutant: commitChanges without its try/catch, the error reaches the catch
\* block of runSafeFixes
commitChanges_Uncaught(g, res, ok) ==
    [git |-> IF ok THEN [g EXCEPT !.commits = @ + 1] ELSE g,
     result |-> IF ok THEN res ELSE [res EXCEPT !.errors = Append(@, "git commit failed")]]

\* the lines of the message of commitChanges that enumerate categories: a
\* count that is missing or 0 adds no line; no change is counted under
\* 'debugger'
CommitMessage(summary) ==
    IF "console.log" \in DOMAIN summary.changesByType
       /\ summary.changesByType["console.log"] # 0
    THEN <<[category |-> "console.log", count |-> summary.changesByType["console.log"]]>>
    ELSE <<>>

\* SafeFixer.commitChanges: git add -A and git commit; a failure is caught
\* and logged, the result record is not touched
commitChanges(g, res, ok) ==
    [git |-> IF ok THEN [g EXCEPT !.commits = @ + 1] ELSE g,
     result |-> res]

\* Phase 7: the commit prompt and commitChanges, whose failure is caught
CommitPrompt ==
    /\ pc = "commit"
    /\ \E commit \in BOOLEAN, ok \in BOOLEAN :
         LET out == IF commit THEN commitChanges(git, result, ok)
                    ELSE [git |-> git, result |-> result]
         IN /\ git' = out.git
            /\ result' = out.result
            /\ hist' = [hist EXCEPT !.commitOffered = TRUE, !.exit = "success",
                                    !.commitFailed = commit /\ ~ok,
                                    !.prompted = @ \cup {"commit"}]
    /\ pc' = "done"
    /\ UNCHANGED <<foundFixes, exitCode, cfg, env, targetFiles, disk, disk0, changeSet, finalChangeSet,
                   decision, backup, backupFs, backups, applyQueue, validationResult>>

\* the action of the fix command after runSafeFixes returned: the result is
\* printed and the callback ends, so the process ends with code 0;
\* process.exit(1) is only in the catch of an exception that escapes
Exit ==
    /\ pc = "done"
    /\ exitCode' = Append(exitCode, 0)
    /\ pc' = "exited"
    /\ UNCHANGED <<foundFixes, cfg, env, targetFiles, disk, disk0, git, changeSet,
                   finalChangeSet, decision, backup, backupFs, backups, applyQueue,
                   validationResult, result, hist>>

Next ==
    \/ PreFlight
    \/ Collect
    \/ Preview
    \/ SelectChanges
    \/ Backup
    \/ DryRunSummary
    \/ ApplyFile
    \/ ApplyDone
    \/ Validate
    \/ Rollback
    \/ Cleanup
    \/ CommitPrompt
    \/ Exit

Spec == Init /\ [][Next]_vars

---------------------------------------------------------------------------
(* The transaction over target lists that hold whitelisted files, with and
   without whitelist globs of the user *)

\* no config file, one that whitelists **/legacy/**, and the same file with a
\* JSON syntax error
ConfigFiles ==
    {NoConfigFile,
     [kind |-> "valid", whitelistFiles |-> {"**/legacy/**"}, consoleLogs |-> NoCategory],
     [kind |-> "malformed", whitelistFiles |-> {"**/legacy/**"},
      consoleLogs |-> NoCategory]}

WhitelistTargets ==
    {<<"a", "util.js">>, <<"vendor", "util.js">>, <<"legacy", "main.ts">>,
     <<"a", "lib.min.js">>}

\* the target lists of NumFiles different files
TargetLists ==
    {fs \in [1..NumFiles -> WhitelistTargets] :
        \A i, j \in 1..NumFiles : i # j => fs[i] # fs[j]}

InitW ==
    /\ cfg \in Configs
    /\ env \in [repo : {"none", "clean", "dirty"}, packageJson : {PackageJson},
                configFile : ConfigFiles, clock : {0}]
    /\ targetFiles \in TargetLists
    /\ disk = [p \in Range(targetFiles) |-> <<"log", "code">>]
    /\ disk0 = disk
    /\ git = [branches |-> {}, commits |-> 0]
    /\ pc = "preflight"
    /\ foundFixes = <<>>
    /\ changeSet = EmptyChangeSet
    /\ finalChangeSet = EmptyChangeSet
    /\ decision = "none"
    /\ backup = NoHandle
    /\ backupFs = EmptyMap
    /\ backups = EmptyMap
    /\ applyQueue = <<>>
    /\ validationResult = NoValidation
    /\ result = InitResult
    /\ exitCode = <<>>
    /\ hist = InitHist

SpecW == InitW /\ [][Next]_vars

---------------------------------------------------------------------------
(* The transaction over target lists that hold test files *)

TestTargets ==
    {<<"a", "util.js">>, <<"a", "util.test.js">>, <<"a", "util.spec.ts">>,
     <<"__tests__", "util.js">>, <<"tests", "main.ts">>, <<"test", "main.ts">>}

\* the target lists of NumFiles different files
TestTargetLists ==
    {fs \in [1..NumFiles -> TestTargets] :
        \A i, j \in 1..NumFiles : i # j => fs[i] # fs[j]}

InitT ==
    /\ cfg \in Configs
    /\ env \in [repo : {"clean"}, packageJson : {PackageJson}, configFile : {NoConfigFile}, clock : {0}]
    /\ targetFiles \in TestTargetLists
    /\ disk = [p \in Range(targetFiles) |-> <<"log", "code">>]
    /\ disk0 = disk
    /\ git = [branches |-> {}, commits |-> 0]
    /\ pc = "preflight"
    /\ foundFixes = <<>>
    /\ changeSet = EmptyChangeSet
    /\ finalChangeSet = EmptyChangeSet
    /\ decision = "none"
    /\ backup = NoHandle
    /\ backupFs = EmptyMap
    /\ backups = EmptyMap
    /\ applyQueue = <<>>
    /\ validationResult = NoValidation
    /\ result = InitResult
    /\ exitCode = <<>>
    /\ hist = InitHist

SpecT == InitT /\ [][Next]_vars

---------------------------------------------------------------------------
(* ConsoleLogFixer on one file: the loop body of collectFixes followed by
   applyChangesToFile, over the contents a source file can have *)

\* longest file content, in lines
MaxLines == 3

FixerPath == <<"a", "util.js">>

FixerLines == {"code", "call", "log", "inline", "logKeep", "marker", "mlOpen",
               "mlArg", "mlNested", "mlClose", "logCall", "inlineParen", "broken"}

\* the lines of a multi-line call appear only as one: "mlOpen", argument
\* lines, "mlClose"
RECURSIVE WellNested(_, _, _)
WellNested(content, i, inside) ==
    IF i > Len(content) THEN ~inside
    ELSE LET line == content[i]
         IN IF inside
            THEN /\ line \in {"mlArg", "mlNested", "mlClose"}
                 /\ WellNested(content, i + 1, line # "mlClose")
            ELSE /\ line \notin {"mlArg", "mlNested", "mlClose"}
                 /\ WellNested(content, i + 1, line = "mlOpen")

\* file contents: the ones that parse, and the ones with a line the parser
\* rejects
FixerContents ==
    {content \in UNION {[1..n -> FixerLines] : n \in 1..MaxLines} :
        "broken" \in Range(content) \/ WellNested(content, 1, FALSE)}

\* no config file, and one that asks for a confidence of 0.99 for the
\* category 'console-logs'
FixerConfigFiles ==
    {NoConfigFile,
     [kind |-> "valid", whitelistFiles |-> {},
      consoleLogs |-> [enabled |-> TRUE, minConfidence |-> 99000]]}

InitF ==
    /\ cfg \in [dryRun : {FALSE}, autoConfirm : {TRUE}, requireGitClean : {FALSE},
                requireBackup : {FALSE}, maxFilesPerRun : {NumFiles},
                validation : {ValidationOff}, consoleLogs : {TRUE}]
    /\ env \in [repo : {"none"}, packageJson : {NoPackageJson},
                configFile : FixerConfigFiles, clock : {0}]
    /\ targetFiles = <<FixerPath>>
    /\ disk \in [{FixerPath} -> FixerContents]
    /\ disk0 = disk
    /\ git = [branches |-> {}, commits |-> 0]
    /\ pc = "find"
    /\ foundFixes = <<>>
    /\ changeSet = EmptyChangeSet
    /\ finalChangeSet = EmptyChangeSet
    /\ decision = "none"
    /\ backup = NoHandle
    /\ backupFs = EmptyMap
    /\ backups = EmptyMap
    /\ applyQueue = <<>>
    /\ validationResult = NoValidation
    /\ result = InitResult
    /\ exitCode = <<>>
    /\ hist = InitHist

\* fixer.findConsoleLogStatements(file)
FindStatements ==
    /\ pc = "find"
    /\ foundFixes' = findConsoleLogStatements(FixerPath, disk[FixerPath])
    /\ pc' = IF foundFixes' = <<>> THEN "fixed" ELSE "remove"
    /\ UNCHANGED <<exitCode, cfg, env, targetFiles, disk, disk0, git, changeSet, finalChangeSet,
                   decision, backup, backupFs, backups, applyQueue, validationResult,
                   result, hist>>

\* fixer.removeConsoleLogs(file, fixes)
RemoveLogs ==
    /\ pc = "remove"
    /\ changeSet' = MakeChangeSet(removeConsoleLogs(FixerPath, disk[FixerPath], foundFixes))
    /\ pc' = "write"
    /\ UNCHANGED <<foundFixes, exitCode, cfg, env, targetFiles, disk, disk0, git, finalChangeSet,
                   decision, backup, backupFs, backups, applyQueue, validationResult,
                   result, hist>>

\* applyChangesToFile(file, changes)
ApplyChanges ==
    /\ pc = "write"
    /\ disk' = [disk EXCEPT ![FixerPath] = applyChangesToFile(@, changeSet.changes)]
    /\ pc' = "fixed"
    /\ UNCHANGED <<foundFixes, exitCode, cfg, env, targetFiles, disk0, git, changeSet, finalChangeSet,
                   decision, backup, backupFs, backups, applyQueue, validationResult,
                   result, hist>>

NextF == FindStatements \/ RemoveLogs \/ ApplyChanges

SpecF == InitF /\ [][NextF]_vars

---------------------------------------------------------------------------
(* ConsoleLogFixer on one file whose lines each hold one console.log call:
   with or without a non-literal argument, as a statement, as the direct
   child of a sequence expression, inside a conditional expression *)

CallLines == {"log", "debug"} \cup SequenceLines \cup ConditionalLines

CallContents == UNION {[1..n -> CallLines] : n \in 1..MaxLines}

InitC ==
    /\ cfg \in [dryRun : {FALSE}, autoConfirm : {TRUE}, requireGitClean : {FALSE},
                requireBackup : {FALSE}, maxFilesPerRun : {NumFiles},
                validation : {ValidationOff}, consoleLogs : {TRUE}]
    /\ env \in [repo : {"none"}, packageJson : {NoPackageJson},
                configFile : {NoConfigFile}, clock : {0}]
    /\ targetFiles = <<FixerPath>>
    /\ disk \in [{FixerPath} -> CallContents]
    /\ disk0 = disk
    /\ git = [branches |-> {}, commits |-> 0]
    /\ pc = "find"
    /\ foundFixes = <<>>
    /\ changeSet = EmptyChangeSet
    /\ finalChangeSet = EmptyChangeSet
    /\ decision = "none"
    /\ backup = NoHandle
    /\ backupFs = EmptyMap
    /\ backups = EmptyMap
    /\ applyQueue = <<>>
    /\ validationResult = NoValidation
    /\ result = InitResult
    /\ exitCode = <<>>
    /\ hist = InitHist

SpecC == InitC /\ [][NextF]_vars

---------------------------------------------------------------------------
(* ChangePreview.selectChanges followed by applyFixes, over the lists of
   changes a ChangeSet can hold for a file *)

\* longest list of changes
MaxEdits == 2

OtherPath == <<"b", "main.ts">>

\* the lines of the file under FixerPath are the first lines of this text
EditSource == <<"code", "log", "call", "debug", "inline", "logCall">>

EditContents == {SubSeq(EditSource, 1, n) : n \in 1..MaxLines}

\* lines.length + 1 is a line no content has
EditLineNumbers == 1..(MaxLines + 1)

OldContentAt(n) == IF n <= Len(EditSource) THEN EditSource[n] ELSE ""

\* the Change records: remove, replace with and without newContent, add,
\* for the file under FixerPath, and one remove for a second file
EditChoices ==
    {RemoveChange(FixerPath, n, OldContentAt(n), <<"statement", method>>) :
        n \in EditLineNumbers, method \in {"log", "debug"}}
    \cup {ReplaceChange(FixerPath, n, OldContentAt(n), newContent, <<"from line", "log">>) :
        n \in EditLineNumbers, newContent \in {"inlineFixed", "undefined"}}
    \cup {[file |-> FixerPath, line |-> n, type |-> "add", oldContent |-> "undefined",
           newContent |-> "marker", description |-> <<"other", "none">>] :
        n \in EditLineNumbers}
    \cup {RemoveChange(OtherPath, 1, "log", <<"statement", "log">>)}

EditLists == UNION {[1..n -> EditChoices] : n \in 0..MaxEdits}

InitE ==
    /\ cfg \in [dryRun : {FALSE}, autoConfirm : {FALSE}, requireGitClean : {FALSE},
                requireBackup : {FALSE}, maxFilesPerRun : {NumFiles},
                validation : {ValidationOff}, consoleLogs : {TRUE}]
    /\ env \in [repo : {"none"}, packageJson : {NoPackageJson}, configFile : {NoConfigFile}, clock : {0}]
    /\ targetFiles = <<FixerPath, OtherPath>>
    /\ \E content \in EditContents :
          disk = [p \in {FixerPath, OtherPath} |->
                    IF p = FixerPath THEN content ELSE <<"log", "code">>]
    /\ disk0 = disk
    /\ git = [branches |-> {}, commits |-> 0]
    /\ pc = "select"
    /\ foundFixes = <<>>
    /\ \E changes \in EditLists : changeSet = MakeChangeSet(changes)
    /\ finalChangeSet = EmptyChangeSet
    /\ decision = "partial"
    /\ backup = NoHandle
    /\ backupFs = EmptyMap
    /\ backups = EmptyMap
    /\ applyQueue = <<>>
    /\ validationResult = NoValidation
    /\ result = InitResult
    /\ exitCode = <<>>
    /\ hist = InitHist

NextE == SelectChanges \/ Backup \/ ApplyFile \/ ApplyDone

SpecE == InitE /\ [][NextE]_vars

---------------------------------------------------------------------------
(* BackupSystem on its own: createBackup, cleanup and cleanupOldBackups of
   the store instances of successive runs, which share the directory
   os.tmpdir()/vibesweep-backups *)

\* backups made in all
MaxBackups == 2

\* the hours the clock can reach
MaxClock == 2

\* crypto.randomBytes(8).toString('hex') of the n-th createBackup
BackupIdOf(n) == <<"b1", "b2", "b3", "b4", "b5">>[n]

\* maxAgeHours: one hour, and the default of 24
MaxAges == {1, 24}

InitB ==
    /\ cfg \in [dryRun : {FALSE}, autoConfirm : {TRUE}, requireGitClean : {FALSE},
                requireBackup : {TRUE}, maxFilesPerRun : {NumFiles},
                validation : {ValidationOff}, consoleLogs : {TRUE}]
    /\ env \in [repo : {"none"}, packageJson : {NoPackageJson}, configFile : {NoConfigFile}, clock : {0}]
    /\ targetFiles = <<FixerPath>>
    /\ disk = [p \in {FixerPath} |-> <<"log", "code">>]
    /\ disk0 = disk
    /\ git = [branches |-> {}, commits |-> 0]
    /\ pc = "store"
    /\ foundFixes = <<>>
    /\ changeSet = EmptyChangeSet
    /\ finalChangeSet = EmptyChangeSet
    /\ decision = "none"
    /\ backup = NoHandle
    /\ backupFs = EmptyMap
    /\ backups = EmptyMap
    /\ applyQueue = <<>>
    /\ validationResult = NoValidation
    /\ result = InitResult
    /\ exitCode = <<>>
    /\ hist = InitHist

\* createBackup(filePaths) of the current store; the caller keeps the handle
CreateBackup ==
    /\ Cardinality(DOMAIN hist.created) < MaxBackups
    /\ \E failed \in FaultSets(Range(targetFiles)) :
         LET backupId == BackupIdOf(Cardinality(DOMAIN hist.created) + 1)
             made == createBackup(backupId, env.clock, targetFiles, failed, disk, backupFs)
         IN /\ backup' = made.handle
            /\ backupFs' = made.fs
            /\ backups' = MapSet(backups, made.handle.id, made.handle)
            /\ hist' = [hist EXCEPT !.backupCreated = TRUE,
                          !.created = MapSet(@, made.handle.backupDir, env.clock)]
    /\ UNCHANGED <<foundFixes, exitCode, cfg, env, targetFiles, disk, disk0, git, changeSet,
                   finalChangeSet, decision, applyQueue, validationResult, result, pc>>

\* cleanup(handle) with the handle the caller holds; fs.rm may throw
CleanupHandle ==
    /\ backup # NoHandle
    /\ \E ok \in BOOLEAN :
         LET out == cleanup(backup, backups, backupFs, ok)
         IN /\ backupFs' = out.fs
            /\ backups' = out.backups
            /\ hist' = [hist EXCEPT !.cleaned = TRUE, !.rmFailed = ~ok,
                          !.cleanedAgain = @ \/ (/\ backup.backupDir \notin DOMAIN backupFs
                                                 /\ backup.id \notin DOMAIN backups)]
    /\ UNCHANGED <<foundFixes, exitCode, cfg, env, targetFiles, disk, disk0, git, changeSet,
                   finalChangeSet, decision, backup, applyQueue, validationResult, result,
                   pc>>

\* cleanupOldBackups(maxAgeHours) of the current store; fs.rm succeeds
Sweep(maxAgeHours) ==
    /\ LET out == cleanupOldBackups(maxAgeHours, env.clock, backups, backupFs)
       IN /\ backupFs' = out.fs
          /\ backups' = out.backups
    /\ UNCHANGED <<foundFixes, exitCode, cfg, env, targetFiles, disk, disk0, git, changeSet,
                   finalChangeSet, decision, backup, applyQueue, validationResult, result,
                   pc, hist>>

\* an hour passes
Tick ==
    /\ env.clock < MaxClock
    /\ env' = [env EXCEPT !.clock = @ + 1]
    /\ UNCHANGED <<foundFixes, exitCode, cfg, targetFiles, disk, disk0, git, changeSet,
                   finalChangeSet, decision, backup, backupFs, backups, applyQueue,
                   validationResult, result, pc, hist>>

\* the next run: new BackupSystem() starts with an empty registry and the
\* process holds no handle; the temp directory is as the last run left it
NewStore ==
    /\ backups' = EmptyMap
    /\ backup' = NoHandle
    /\ UNCHANGED <<foundFixes, exitCode, cfg, env, targetFiles, disk, disk0, git, changeSet,
                   finalChangeSet, decision, backupFs, applyQueue, validationResult, result,
                   pc, hist>>

NextB ==
    \/ CreateBackup
    \/ CleanupHandle
    \/ \E maxAgeHours \in MaxAges : Sweep(maxAgeHours)
    \/ Tick
    \/ NewStore

SpecB == InitB /\ [][NextB]_vars

---------------------------------------------------------------------------
(* ValidationSuite.run on its own, over the configurations and manifests
   a project can have *)

\* longest list of customCommands
MaxCustom == 2

CustomCommandLists == UNION {[1..n -> {"c1", "c2"}] : n \in 0..MaxCustom}

ValidationConfigs ==
    [runTests : BOOLEAN, runTypeCheck : BOOLEAN, runLinter : BOOLEAN,
     testCommand : {NoCommand, "vitest run"},
     typeCheckCommand : {NoCommand, "tsc -p ."},
     lintCommand : {NoCommand, "eslint ."},
     customCommands : CustomCommandLists]

PackageJsons ==
    {NoPackageJson}
    \cup [exists : {TRUE}, scripts : SUBSET {"test", "lint", "tsc"}, typescript : BOOLEAN]

InitV ==
    /\ cfg \in [dryRun : {FALSE}, autoConfirm : {TRUE}, requireGitClean : {FALSE},
                requireBackup : {TRUE}, maxFilesPerRun : {NumFiles},
                validation : ValidationConfigs, consoleLogs : {TRUE}]
    /\ env \in [repo : {"none"}, packageJson : PackageJsons, configFile : {NoConfigFile}, clock : {0}]
    /\ targetFiles = <<>>
    /\ disk = EmptyMap
    /\ disk0 = disk
    /\ git = [branches |-> {}, commits |-> 0]
    /\ pc = "validation"
    /\ foundFixes = <<>>
    /\ changeSet = EmptyChangeSet
    /\ finalChangeSet = EmptyChangeSet
    /\ decision = "none"
    /\ backup = NoHandle
    /\ backupFs = EmptyMap
    /\ backups = EmptyMap
    /\ applyQueue = <<>>
    /\ validationResult = NoValidation
    /\ result = InitResult
    /\ exitCode = <<>>
    /\ hist = InitHist

\* one call of ValidationSuite.run
RunValidation ==
    /\ pc = "validation"
    /\ \E failing \in Outcomes(cfg.validation, env.packageJson) :
         validationResult' = run(cfg.validation, env.packageJson, failing)
    /\ pc' = "validated"
    /\ UNCHANGED <<foundFixes, exitCode, cfg, env, targetFiles, disk, disk0, git, changeSet,
                   finalChangeSet, decision, backup, backupFs, backups, applyQueue,
                   result, hist>>

NextV == RunValidation

SpecV == InitV /\ [][NextV]_vars

---------------------------------------------------------------------------
(* Properties of the transaction *)

Returned == pc \in {"done", "exited"}

Untouched == disk = disk0 /\ hist.written = {}

NoBackupMade ==
    backup = NoHandle /\ ~hist.backupCreated /\ backupFs = EmptyMap /\ backups = EmptyMap

PostValidationFailed == hist.validated /\ ~validationResult.success

\* C1: when runSafeFixes returns after APPLY wrote a target file, either the
\* post-apply validation passed or restore was called; no return leaves files
\* modified after a failed validation or a failed APPLY without a restore.
C1_WrittenThenValidatedOrRestored ==
    (Returned /\ hist.written # {}) =>
        \/ (hist.validated /\ validationResult.success)
        \/ hist.restored

\* C2: after createBackup, the overwrites of APPLY and a restore that reports
\* no failed file, every file recorded in the handle has the content it had
\* when createBackup ran.
C2_RestoreRoundTrip ==
    (hist.restored /\ hist.restoreFailed = {}) =>
        \A p \in DOMAIN backup.files : disk[p] = disk0[p]

\* C3: createBackup maps distinct source paths to distinct backup paths, and
\* every backup holds the content of its own source file.
C3_DistinctBackupPaths ==
    (backup # NoHandle /\ ~hist.cleaned) =>
        /\ \A p, q \in DOMAIN backup.files :
              p # q => backup.files[p] # backup.files[q]
        /\ \A p \in DOMAIN backup.files : backupFs[backup.files[p]] = disk0[p]

\* C4: when requireBackup is set and the run is not a dry run, every file
\* that APPLY writes is a key of the backup handle.
C4_WrittenFilesAreBackedUp ==
    (cfg.requireBackup /\ ~cfg.dryRun) =>
        \A p \in hist.written : backup # NoHandle /\ p \in DOMAIN backup.files

\* C5: no target file is written before the clean-working-tree check has
\* passed (when requireGitClean is set in a repository) and before
\* createBackup has returned a handle (when requireBackup is set).
C5_GuardsBeforeFirstWrite ==
    (disk # disk0 \/ hist.written # {}) =>
        /\ (cfg.requireGitClean /\ isGitRepository(env)) =>
               (hist.cleanChecked /\ env.repo = "clean")
        /\ cfg.requireBackup => (backup # NoHandle /\ hist.backupCreated)

C5_Witness ==
    /\ hist.written # {}
    /\ cfg.requireGitClean /\ isGitRepository(env)
    /\ cfg.requireBackup

\* C6: after a failed post-apply validation of a non-dry run, whatever the
\* configuration, the result never has success = true, the backup is not
\* cleaned up and the commit prompt is never offered.
C6_NoCommitAfterFailedValidation ==
    (~cfg.dryRun /\ PostValidationFailed) =>
        /\ ~result.success
        /\ ~hist.cleaned
        /\ ~hist.commitOffered
        /\ pc # "commit"

\* the cases of C7: COLLECT returned an empty ChangeSet, the decision was
\* 'reject' or 'skip', or selectChanges returned an empty ChangeSet
EarlyExitCase ==
    \/ (hist.collected /\ changeSet.changes = <<>>)
    \/ decision \in {"reject", "skip"}
    \/ (decision = "partial" /\ pc # "select" /\ finalChangeSet.changes = <<>>)

\* C7: on an empty ChangeSet, a 'reject' or 'skip' decision, or an empty
\* selection, the transaction has returned success = true with zero counts,
\* and wrote no file, created no backup and ran no post-apply validation.
C7_EarlyExitUntouched ==
    EarlyExitCase =>
        /\ Returned
        /\ Untouched
        /\ NoBackupMade
        /\ ~hist.validated
        /\ result.success
        /\ result.filesModified = 0
        /\ result.changesApplied = 0

C7_Witness ==
    /\ decision = "skip"
    /\ Returned
    /\ changeSet.summary.totalFiles = NumFiles
    /\ ~cfg.dryRun

\* C8: with dryRun set, no target file is ever written, no backup handle is
\* ever created, and the result has zero counts and no backupId.
C8_DryRunWritesNothing ==
    cfg.dryRun =>
        /\ Untouched
        /\ NoBackupMade
        /\ result.filesModified = 0
        /\ result.changesApplied = 0
        /\ result.backupId = "undefined"

C8_Witness ==
    /\ cfg.dryRun
    /\ cfg.requireBackup
    /\ decision = "accept"
    /\ hist.exit = "dryrun"
    /\ result.success

\* C9: with requireGitClean set in a repository with a dirty tree, the run
\* has aborted in PREFLIGHT: no recovery branch, no backup, no write, and
\* success = false with the precondition message in errors.
C9_DirtyTreeAborts ==
    (cfg.requireGitClean /\ env.repo = "dirty" /\ pc # "preflight") =>
        /\ Returned
        /\ git.branches = {}
        /\ NoBackupMade
        /\ Untouched
        /\ ~hist.collected
        /\ ~result.success
        /\ result.errors = <<DirtyTreeMessage>>

C9_Witness ==
    /\ cfg.requireGitClean /\ env.repo = "dirty"
    /\ Returned
    /\ ~cfg.dryRun
    /\ \E p \in Targets : disk[p] # <<"code">>

\* C10, as stated: with requireGitClean set outside any repository the
\* transaction fails with a precondition error before any mutation.
C10_NoRepositoryAborts ==
    (cfg.requireGitClean /\ env.repo = "none") =>
        /\ Untouched
        /\ Returned => (~result.success /\ result.errors # <<>>)

\* C10, amended: with requireGitClean set outside any repository the git
\* requirement is disabled: no clean-tree check runs, no recovery branch is
\* created and no precondition error reaches the result.
C10_NoRepositoryDisablesCheck ==
    (cfg.requireGitClean /\ env.repo = "none") =>
        /\ ~hist.cleanChecked
        /\ git.branches = {}
        /\ DirtyTreeMessage \notin Range(result.errors)
        /\ GitStatusMessage \notin Range(result.errors)

C10_Witness ==
    /\ cfg.requireGitClean /\ env.repo = "none"
    /\ Returned
    /\ hist.written # {}
    /\ result.success

---------------------------------------------------------------------------
(* Properties of the backup handle *)

\* C12: a handle created in BACKUP is consumed, by the time runSafeFixes
\* returns, by exactly one of cleanup and restore: never both, never neither,
\* also when APPLY throws after the handle was created.
C12_HandleConsumedExactlyOnce ==
    (Returned /\ hist.backupCreated) => (hist.restored # hist.cleaned)

\* C14: when restore could not restore a file of the handle, the result does
\* not report that the changes were rolled back.
C14_RestoreFailureSurfaced ==
    (hist.restored /\ hist.restoreFailed # {}) =>
        RolledBackMessage \notin Range(result.errors)

\* C15: restore goes through every entry of the handle: every file whose
\* backup is readable and whose original is writable holds its backed-up
\* content afterwards, whatever entries failed, and restore returns normally
\* to the rollback branch of runSafeFixes.
C15_RestoreBestEffort ==
    hist.restored =>
        /\ \A p \in DOMAIN backup.files \ hist.restoreFailed :
              disk[p] = backupFs[backup.files[p]]
        /\ hist.exit = "rolledBack"
        /\ Returned

\* one entry of the handle fails and another, written by APPLY, is restored
C15_Witness ==
    /\ hist.restored
    /\ hist.restoreFailed # {}
    /\ \E p \in (DOMAIN backup.files \ hist.restoreFailed) \cap hist.written :
          /\ disk[p] = backupFs[backup.files[p]]
          /\ disk[p] = disk0[p]
    /\ \E q \in hist.restoreFailed : disk[q] # disk0[q]

\* C16: createBackup returns a handle whose file map holds exactly the paths
\* that could be copied, each mapped to a backup whose content is the
\* original at that moment, registered under its id.
C16_HandleHoldsCopiedOriginals ==
    (hist.backupCreated /\ ~hist.cleaned) =>
        /\ DOMAIN backup.files =
              Range(Distinct(FilesOf(finalChangeSet.changes))) \ hist.backupFailed
        /\ \A p \in DOMAIN backup.files :
              /\ backup.files[p] \in DOMAIN backupFs
              /\ backupFs[backup.files[p]] = disk0[p]
        /\ backup.id \in DOMAIN backups

---------------------------------------------------------------------------
(* Properties of ValidationSuite.run *)

\* number of occurrences of x in s
RECURSIVE Count(_, _)
Count(x, s) == IF s = <<>> THEN 0 ELSE (IF Head(s) = x THEN 1 ELSE 0) + Count(x, Tail(s))

\* C11: run executes every enabled check that has a command, in the order
\* Tests, Type Check, Linter, custom commands, whatever the earlier outcomes;
\* every execution is recorded in exactly one of passed and failed; success
\* is true exactly when failed is empty.
C11_RunNeverShortCircuits ==
    pc = "validated" =>
        LET r == validationResult
            checks == ChecksToRun(cfg.validation, env.packageJson)
        IN /\ r.executed = checks
           /\ Len(r.passed) + Len(r.failed) = Len(checks)
           /\ \A n \in Range(checks) :
                 Count(n, r.passed) + Count(n, r.failed) = Count(n, checks)
           /\ r.success <=> (r.failed = <<>>)

\* three checks run and exactly the second fails
C11_Witness ==
    /\ pc = "validated"
    /\ Len(validationResult.executed) = 3
    /\ validationResult.failed = <<validationResult.executed[2]>>
    /\ Len(validationResult.passed) = 2
    /\ ~validationResult.success

HasScript(pkg, name) == pkg.exists /\ name \in pkg.scripts

NotRun(check) ==
    /\ check \notin Range(validationResult.executed)
    /\ check \notin Range(validationResult.passed)
    /\ check \notin Range(validationResult.failed)

\* C13: an enabled check with no configured command and no command that the
\* manifest lets discover is skipped: it is not executed and is in neither
\* passed nor failed, for Tests, Type Check and Linter, also when
\* package.json exists and defines no matching script.
C13_UndiscoverableCheckSkipped ==
    pc = "validated" =>
        LET v == cfg.validation
            pkg == env.packageJson
        IN /\ (v.runTests /\ v.testCommand = NoCommand /\ ~HasScript(pkg, "test"))
                 => NotRun("Tests")
           /\ (v.runLinter /\ v.lintCommand = NoCommand /\ ~HasScript(pkg, "lint"))
                 => NotRun("Linter")
           /\ (/\ v.runTypeCheck /\ v.typeCheckCommand = NoCommand
               /\ ~HasScript(pkg, "type-check") /\ ~HasScript(pkg, "typecheck")
               /\ ~HasScript(pkg, "tsc")
               /\ ~(pkg.exists /\ pkg.typescript))
                 => NotRun("Type Check")

---------------------------------------------------------------------------
(* Properties of the whitelist *)

Skipped(p) == shouldSkipFile(p, merge(load(env.configFile)).whitelist)

\* C17: a target for which shouldSkipFile holds against the merged whitelist
\* (defaults and user globs) is the file of no edit of the ChangeSet of
\* COLLECT or of the ChangeSet that is applied, is in no backup handle and is
\* never written.
C17_SkippedFilesNeverInChangeSet ==
    \A p \in Range(targetFiles) :
        Skipped(p) =>
            /\ p \notin Range(FilesOf(changeSet.changes))
            /\ p \notin Range(FilesOf(finalChangeSet.changes))
            /\ backup # NoHandle => p \notin DOMAIN backup.files
            /\ p \notin hist.written
            /\ disk[p] = disk0[p]

\* a target skipped through a glob of the user holds a console.log while
\* another target of the same run is written
C17_Witness ==
    /\ hist.written # {}
    /\ \E p \in Range(targetFiles) :
          /\ Skipped(p)
          /\ ~shouldSkipFile(p, merge(NoUserConfig).whitelist)
          /\ "log" \in Range(disk[p])

---------------------------------------------------------------------------
(* Properties of ConsoleLogFixer *)

\* the content that findConsoleLogStatements and removeConsoleLogs read
Original == disk0[FixerPath]

ChangesBuilt == pc \in {"write", "fixed"} /\ foundFixes # <<>>

\* the edits of the ChangeSet for line n
ChangesAt(n) == SelectSeq(changeSet.changes, LAMBDA c : c.line = n)

\* a line that holds a console call and whose own line or preceding line
\* carries a preserve marker
Marked(n) ==
    /\ RegexMethods(Original[n]) # <<>>
    /\ \/ ShouldPreserve(Original[n])
       \/ n > 1 /\ ShouldPreserve(Original[n - 1])

\* C18: a console call whose own line or whose preceding line carries a
\* preserve marker is not among the fixes of findConsoleLogStatements and has
\* no edit in the ChangeSet, on the AST path and on the regex path.
C18_PreserveMarkerSuppresses ==
    pc # "find" =>
        \A n \in 1..Len(Original) :
            Marked(n) =>
                /\ \A i \in 1..Len(foundFixes) : foundFixes[i].line # n
                /\ ChangesAt(n) = <<>>

\* C19: the edits that removeConsoleLogs produces for one file have pairwise
\* distinct line numbers, also when a candidate lies inside the span of a
\* multi-line candidate that starts on an earlier line.
C19_DistinctEditLines ==
    ChangesBuilt =>
        \A i, j \in 1..Len(changeSet.changes) :
            i # j => changeSet.changes[i].line # changeSet.changes[j].line

\* the line without its console statement
Excised(line) == IF line = "inline" THEN "inlineFixed" ELSE "call"

\* C20: a single-line candidate gets a Remove of the whole line only when
\* the line is exactly the console statement; when the line holds other code
\* before or after the statement it gets one Replace whose new content is the
\* line without the console statement.
C20_RemoveOnlyExactStatement ==
    ChangesBuilt =>
        \A i \in 1..Len(foundFixes) :
            LET n == foundFixes[i].line
                line == Original[n]
                cs == ChangesAt(n)
            IN /\ line \in {"log", "debug"} =>
                    /\ cs # <<>>
                    /\ \A k \in 1..Len(cs) : cs[k].type = "remove"
               /\ line \in {"inline", "logCall"} =>
                    /\ Len(cs) = 1
                    /\ cs[1].type = "replace"
                    /\ cs[1].oldContent = line
                    /\ cs[1].newContent = Excised(line)

\* the lines of the original content that held a candidate
CandidateLines == {Original[foundFixes[i].line] : i \in 1..Len(foundFixes)}

\* C21: after the ChangeSet built from the fixes has been applied,
\* findConsoleLogStatements on the new content returns no candidate on a
\* line that held a candidate before.
C21_DetectBuildApplyIdempotent ==
    (pc = "fixed" /\ foundFixes # <<>>) =>
        LET again == findConsoleLogStatements(FixerPath, disk[FixerPath])
        IN \A j \in 1..Len(again) :
              disk[FixerPath][again[j].line] \notin CandidateLines

---------------------------------------------------------------------------
(* Properties of the version-control state and of the result record *)

\* C22: once PREFLIGHT has passed the clean-tree check and created the
\* recovery branch, the branch exists in every later state, whatever the
\* outcome of the transaction.
C22_RecoveryBranchStays ==
    hist.cleanChecked => BackupBranchName \in git.branches

\* the run ended in a rollback in which restore failed for a file, and the
\* recovery branch is there
C22_Witness ==
    /\ Returned
    /\ hist.cleanChecked
    /\ hist.restored
    /\ hist.restoreFailed # {}
    /\ BackupBranchName \in git.branches

\* C23: the fix command ends the process with code 1 when runSafeFixes
\* returned success = false and with code 0 when it returned success = true.
C23_ExitCodeFollowsSuccess ==
    pc = "exited" => exitCode = <<IF result.success THEN 0 ELSE 1>>

\* C24: with autoConfirm the transaction shows no prompt to the operator:
\* no baseline confirmation, no PREVIEW decision, no per-file review and no
\* commit confirmation.
C24_AutoConfirmShowsNoPrompt ==
    cfg.autoConfirm => hist.prompted = {}

\* C25: when the baseline validation of PREFLIGHT fails, autoConfirm is off
\* and the operator does not confirm, the run ends before any mutation with
\* success = false and the abort error; with autoConfirm the operator is not
\* asked and the run goes on to COLLECT.
C25_RedBaselineAbortsUnlessAuthorized ==
    hist.baseline = "red" =>
        /\ (~cfg.autoConfirm /\ hist.declined) =>
              /\ Returned
              /\ Untouched
              /\ NoBackupMade
              /\ ~result.success
              /\ result.errors = <<AbortedMessage>>
        /\ cfg.autoConfirm =>
              /\ "continue" \notin hist.prompted
              /\ AbortedMessage \notin Range(result.errors)
              /\ pc # "preflight"

\* the operator declined after a red baseline, and the run has returned
C25_Witness ==
    /\ Returned
    /\ hist.baseline = "red"
    /\ ~cfg.autoConfirm
    /\ hist.declined
    /\ disk \in [Targets -> {<<"log", "code">>}]

C26_AtMostMaxFilesPerRun ==
    /\ Cardinality(Range(FilesOf(changeSet.changes))) <= cfg.maxFilesPerRun
    /\ Cardinality(Range(FilesOf(finalChangeSet.changes))) <= cfg.maxFilesPerRun
    /\ backup # NoHandle => Cardinality(DOMAIN backup.files) <= cfg.maxFilesPerRun
    /\ Cardinality(hist.written) <= cfg.maxFilesPerRun

\* every target holds a console.log, the cap is below the number of targets
\* and as many files as the cap allows were written
C26_Witness ==
    /\ \A p \in Range(targetFiles) : "log" \in Range(disk0[p])
    /\ cfg.maxFilesPerRun > 0
    /\ cfg.maxFilesPerRun < Len(targetFiles)
    /\ Cardinality(hist.written) = cfg.maxFilesPerRun
    /\ Returned

\* C28: every failure of a collaborator (configuration load, VCS check,
\* backup, file read in COLLECT, file read or write in APPLY) ends
\* runSafeFixes with a returned record that has success = false and a
\* non-empty errors list, and every record with success = true has an empty
\* errors list.
C28_ErrorsConvergeIntoResult ==
    Returned =>
        /\ result.success => result.errors = <<>>
        /\ (hist.failures # {} \/ env.configFile.kind = "malformed") =>
              (~result.success /\ result.errors # <<>>)

\* C29: with dryRun the transaction creates no recovery branch and makes no
\* commit, whatever requireGitClean is.
C29_DryRunLeavesGitUnchanged ==
    cfg.dryRun => git = [branches |-> {}, commits |-> 0]

\* C30: a target whose path follows a test-file convention is the file of no
\* edit of the ChangeSet of COLLECT or of the ChangeSet that is applied, and
\* is never written.
C30_TestFilesYieldNoEdit ==
    \A p \in Range(targetFiles) :
        IsTestFile(p) =>
            /\ p \notin Range(FilesOf(changeSet.changes))
            /\ p \notin Range(FilesOf(finalChangeSet.changes))
            /\ p \notin hist.written
            /\ disk[p] = disk0[p]

\* a test file that holds a console.log is a target of a run that has
\* written another target
C30_Witness ==
    /\ hist.written # {}
    /\ \E p \in Range(targetFiles) :
          /\ IsTestFile(p)
          /\ IsJsTs(p)
          /\ "log" \in Range(disk[p])

\* C31: a target file is written, and APPLY is reached, only after the
\* operator chose 'accept' at PREVIEW, or 'partial' followed by a non-empty
\* selection; every other outcome of the prompt, a dismissed prompt that
\* yields no decision value included, leaves the files as they were.
C31_WritesOnlyAfterAccepting ==
    /\ (pc = "apply" \/ hist.written # {}) =>
          \/ decision = "accept"
          \/ decision = "partial" /\ finalChangeSet.changes # <<>>
    /\ (decision \notin {"none", "accept", "partial"}) => Untouched

---------------------------------------------------------------------------
(* Properties of selectChanges, generateDiff and applyChangesToFile *)

\* the changes that were applied to the file under FixerPath
Applied == ChangesOf(finalChangeSet.changes, FixerPath)

\* the line numbers are pairwise distinct and refer to lines of the original
\* content, and every change is a remove or a replace that has new content
DistinctInRange(content, changes) ==
    /\ \A i, j \in 1..Len(changes) : i # j => changes[i].line # changes[j].line
    /\ \A i \in 1..Len(changes) :
          /\ changes[i].line \in 1..Len(content)
          /\ \/ changes[i].type = "remove"
             \/ changes[i].type = "replace" /\ changes[i].newContent # "undefined"

\* the lines of the content from line i on, each removed, replaced or kept
\* as the change that names it says
RECURSIVE ExpectedFrom(_, _, _)
ExpectedFrom(content, changes, i) ==
    IF i > Len(content) THEN <<>>
    ELSE LET at == {k \in 1..Len(changes) : changes[k].line = i}
         IN (IF at = {} THEN <<content[i]>>
             ELSE LET change == changes[CHOOSE k \in at : TRUE]
                  IN IF change.type = "remove" THEN <<>> ELSE <<change.newContent>>)
            \o ExpectedFrom(content, changes, i + 1)

\* one remove or replace, on its own
OneEdit(lines, change) ==
    IF change.type = "remove"
    THEN [i \in 1..(Len(lines) - 1) |->
             IF i < change.line THEN lines[i] ELSE lines[i + 1]]
    ELSE [i \in 1..Len(lines) |->
             IF i = change.line THEN change.newContent ELSE lines[i]]

\* the changes at the positions of rest, one at a time, the lowest in the
\* file first
RECURSIVE BottomUp(_, _, _)
BottomUp(lines, changes, rest) ==
    IF rest = {} THEN lines
    ELSE LET k == CHOOSE k \in rest : \A j \in rest : changes[j].line <= changes[k].line
         IN BottomUp(OneEdit(lines, changes[k]), changes, rest \ {k})

\* the lines of a file: the empty file has none
LineCount(content) == IF content = <<"">> THEN 0 ELSE Len(content)

\* C32: for changes with pairwise distinct line numbers that refer to lines
\* of the original content, applyChangesToFile writes the original lines in
\* their order with every removed line gone and every replaced line
\* replaced, which is what applying the changes one at a time from the
\* bottom up gives; one remove leaves the file one line shorter.
C32_ApplyIsPositional ==
    (FixerPath \in hist.written /\ DistinctInRange(disk0[FixerPath], Applied)) =>
        /\ disk[FixerPath] = JoinSplit(ExpectedFrom(disk0[FixerPath], Applied, 1))
        /\ disk[FixerPath] =
              JoinSplit(BottomUp(disk0[FixerPath], Applied, 1..Len(Applied)))
        /\ (Len(Applied) = 1 /\ Applied[1].type = "remove") =>
              LineCount(disk[FixerPath]) = LineCount(disk0[FixerPath]) - 1

\* a remove and a replace, listed top line first, were applied to a file of
\* three lines
C32_Witness ==
    /\ FixerPath \in hist.written
    /\ DistinctInRange(disk0[FixerPath], Applied)
    /\ Len(disk0[FixerPath]) >= 3
    /\ Len(Applied) = 2
    /\ Applied[1].type = "remove" /\ Applied[1].line = 1
    /\ Applied[2].type = "replace" /\ Applied[2].line = 3

\* s is t with some elements left out
RECURSIVE IsSubList(_, _)
IsSubList(s, t) ==
    IF s = <<>> THEN TRUE
    ELSE IF t = <<>> THEN FALSE
    ELSE IF Head(s) = Head(t) THEN IsSubList(Tail(s), Tail(t))
    ELSE IsSubList(s, Tail(t))

\* selectChanges has returned
Selected == pc # "select"

\* C33: selectChanges leaves its input ChangeSet as it was and returns a
\* ChangeSet whose changes are, file by file and in the order of the input,
\* changes of the input, with totalChanges their number and totalFiles the
\* number of their files; selectChanges and the generateDiff calls it makes
\* write no file.
C33_SelectionIsSubListAndPure ==
    /\ [](Selected =>
            /\ \A p \in Range(FilesOf(changeSet.changes)) :
                  IsSubList(ChangesOf(finalChangeSet.changes, p),
                            ChangesOf(changeSet.changes, p))
            /\ Range(FilesOf(finalChangeSet.changes))
                  \subseteq Range(FilesOf(changeSet.changes))
            /\ finalChangeSet.summary.totalChanges = Len(finalChangeSet.changes)
            /\ finalChangeSet.summary.totalFiles =
                  Cardinality(Range(FilesOf(finalChangeSet.changes))))
    /\ [][pc = "select" => (changeSet' = changeSet /\ disk' = disk)]_vars

\* a selection that keeps one of two changes, which are of two files
C33_Witness ==
    /\ pc = "backup"
    /\ changeSet.summary.totalFiles = 2
    /\ Len(finalChangeSet.changes) = 1

\* C38: the modified content generateDiff computed for a file equals the
\* content applyChangesToFile wrote, when the changes applied to the file
\* are the ones the diff was shown for.
C38_PreviewIsWhatIsApplied ==
    \A p \in hist.written :
        ChangesOf(finalChangeSet.changes, p) = ChangesOf(changeSet.changes, p) =>
            /\ p \in DOMAIN hist.modifiedContent
            /\ disk[p] = hist.modifiedContent[p]

\* a file was written with all of its two changes, which are listed top
\* line first, and its content has changed
C38_Witness ==
    /\ FixerPath \in hist.written
    /\ Applied = ChangesOf(changeSet.changes, FixerPath)
    /\ Len(Applied) = 2
    /\ Applied[1].line < Applied[2].line
    /\ disk[FixerPath] # disk0[FixerPath]

\* the changes of the list that remove a console.log, console.debug or
\* console.info call
ConsoleEdits(changes) ==
    {i \in 1..Len(changes) : changes[i].description[2] \in {"log", "debug", "info"}}

\* C37: the summary of the ChangeSet that is applied, built by the
\* coordinator in COLLECT or by the presenter after a review per file,
\* counts every console.log, console.debug and console.info change under the
\* same category as the coordinator's summary of the same list does, and the
\* commit message enumerates as many console changes as are applied.
C37_SummariesAgreeOnCategories ==
    Selected =>
        /\ finalChangeSet.summary.changesByType =
              calculateSummary(finalChangeSet.changes).changesByType
        /\ CommitMessage(finalChangeSet.summary) =
              IF ConsoleEdits(finalChangeSet.changes) = {} THEN <<>>
              ELSE <<[category |-> "console.log",
                      count |-> Cardinality(ConsoleEdits(finalChangeSet.changes))]>>

---------------------------------------------------------------------------
(* Properties of the backup store *)

\* the directory of the handle, and every path under it, is gone
DirectoryGone(handle, fs) ==
    \A q \in DOMAIN fs : SubSeq(q, 1, Len(handle.backupDir)) # handle.backupDir

C35_SweepRemovesEveryStaleBackup ==
    [][\A maxAgeHours \in MaxAges :
          Sweep(maxAgeHours) =>
              \A dir \in DOMAIN hist.created :
                  IF hist.created[dir] < env.clock - maxAgeHours
                  THEN dir \notin DOMAIN backupFs'
                  ELSE dir \in DOMAIN backupFs => dir \in DOMAIN backupFs']_vars

---------------------------------------------------------------------------
(* Properties of the confidence filter *)

\* the minConfidence of the category 'console-logs' after merge
MinConfidence == merge(load(env.configFile)).categories.consoleLogs.minConfidence

\* C36: whatever minConfidence the configuration sets for 'console-logs', no
\* candidate with a confidence below it is returned by the detector, and no
\* change of the ChangeSet comes from such a candidate.
C36_ConfiguredMinConfidenceFilters ==
    /\ \A i \in 1..Len(foundFixes) : foundFixes[i].confidence >= MinConfidence
    /\ \A k \in 1..Len(changeSet.changes) :
          \E i \in 1..Len(foundFixes) :
              /\ foundFixes[i].confidence >= MinConfidence
              /\ changeSet.changes[k].line
                    \in foundFixes[i].line..EndLineOf(disk0[FixerPath], foundFixes[i].line)

\* the detector has returned
Detected == pc # "find"

\* the call that line n of the original content holds
CallOfLine(n) == CallsAt(disk0[FixerPath], n)[1]

\* line n is the line of a returned fix
ReturnedAt(n) == \E i \in 1..Len(foundFixes) : foundFixes[i].line = n

\* C39: with the threshold 0.9, a console call found on the AST path is
\* returned if and only if it is neither the direct child of a sequence
\* expression nor inside a conditional expression, whether or not all its
\* arguments are string literals.
C39_ReturnedIffNoPenalty ==
    Detected =>
        \A n \in 1..Len(disk0[FixerPath]) :
            ReturnedAt(n) <=>
                (~CallOfLine(n).inSequence /\ ~CallOfLine(n).inConditional)

\* a file with a call of literals in a conditional expression (0.891), a
\* call in a sequence expression, and a plain call that is returned
C39_Witness ==
    /\ Detected
    /\ "condLog" \in Range(disk0[FixerPath])
    /\ "seqLogVar" \in Range(disk0[FixerPath])
    /\ \E n \in 1..Len(disk0[FixerPath]) :
          disk0[FixerPath][n] = "debug" /\ ReturnedAt(n)

====
